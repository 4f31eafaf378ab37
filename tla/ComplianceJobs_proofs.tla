----------------------- MODULE ComplianceJobs_proofs ------------------------
(***************************************************************************)
(* Proofs about the job service, for any number of jobs, workers and report*)
(* kinds, any number of failing commands, crashes and redeliveries; and,   *)
(* below, about its development store (LocalJobs).                         *)
(***************************************************************************)
EXTENDS ComplianceJobs, TLAPS

\* The definitions that only name sets of values.
USE DEF Unfinished, Finished, Exists

(***************************************************************************)
(* Types.                                                                  *)
(***************************************************************************)
\* A worker that is not idle has a job, and one that stores a name has a kind.
WorkerSane ==
    \A w \in Workers :
        /\ worker[w].pc # "idle" => worker[w].job \in Jobs
        /\ worker[w].pc = "idle" => worker[w].job = NoJob
        /\ worker[w].pc = "artname" => worker[w].kind \in ArtifactKinds
        /\ worker[w].pc \in {"store_artifacts", "artname", "final_expire"}
              => worker[w].verdict \in Finished

\* A download that has begun has a job and a kind.
ReaderSane ==
    reader.pc # "idle" => reader.job \in Jobs /\ reader.kind \in ArtifactKinds

TypeInv == TypeOK /\ WorkerSane /\ ReaderSane

\* Writing a status keeps the type of a hash.
LEMMA HSetType ==
    ASSUME hash \in [Jobs -> HashType],
           NEW j \in Jobs, NEW s \in Unfinished \cup Finished
    PROVE  HSet(j, s) \in HashType
<1>1. hash[j] \in HashType
  OBVIOUS
<1>2. hash[j].ttl \in Keys /\ Persistent \in Keys
  BY <1>1, TtlAssumption DEF TtlAssumption, HashType, Keys, Persistent
<1>3. [hash[j] EXCEPT !.ttl = IF Exists(hash[j].ttl) THEN hash[j].ttl ELSE Persistent] \in HashType
  BY <1>1, <1>2 DEF HashType
<1>4. QED
  BY <1>1, <1>2, <1>3 DEF HSet, HashType

LEMMA ExpireType ==
    ASSUME hash \in [Jobs -> HashType], NEW j \in Jobs, Expire(j)
    PROVE  hash' \in [Jobs -> HashType]
BY TtlAssumption DEF TtlAssumption, Expire, HashType, Keys, Persistent

LEMMA InitType == Init => TypeInv
BY TtlAssumption, BoundsAssumption, NoJobAssumption, KindsAssumption
   DEF TtlAssumption, BoundsAssumption, NoJobAssumption, KindsAssumption,
       Init, TypeInv, TypeOK, WorkerSane, ReaderSane, NoHash, Idle, NoRequest, SubmitSteps,
       WorkerSteps, ReadSteps, HashType, WorkerType, ReaderType, Keys, Persistent

(***************************************************************************)
(* Type correctness, one lemma per part of the next-state relation.        *)
(***************************************************************************)
LEMMA SubmitType ==
    ASSUME TypeInv, NEW j \in Jobs,
           \/ Receive(j) \/ ReceiveTooLarge(j)
           \/ SubmitStep(j) \/ SubmitFails(j) \/ SubmitCrashes(j)
           \/ Redeliver(j)
    PROVE  TypeInv'
<1> USE BoundsAssumption
    DEF TypeInv, TypeOK, WorkerSane, ReaderSane, store, budget, SubmitTo, SubmitSteps,
        BoundsAssumption
<1>1. Ttl \in Keys
  BY TtlAssumption DEF TtlAssumption, Keys, Persistent
<1>2. CASE Receive(j)
  BY <1>2 DEF Receive
<1>3. CASE ReceiveTooLarge(j)
  BY <1>3 DEF ReceiveTooLarge
<1>4. CASE SubmitHSet(j)
  <2>1. [HSet(j, "queued") EXCEPT !.plan = TRUE] \in HashType
    <3>1. HSet(j, "queued") \in HashType
      BY HSetType
    <3>2. QED
      BY <3>1 DEF HashType
  <2>2. QED
    BY <1>4, <2>1 DEF SubmitHSet
<1>5. CASE SubmitExpire(j)
  <2>1. hash' \in [Jobs -> HashType]
    BY <1>5, ExpireType DEF SubmitExpire
  <2>2. QED
    BY <1>5, <2>1 DEF SubmitExpire
<1>6. CASE StoreUploadData(j)
  BY <1>1, <1>6 DEF StoreUploadData
<1>7. CASE StoreUploadName(j)
  BY <1>1, <1>7 DEF StoreUploadName
<1>8. CASE Delay(j)
  BY <1>8 DEF Delay
<1>9. CASE SubmitFails(j)
  BY <1>9 DEF SubmitFails
<1>10. CASE SubmitCrashes(j)
  BY <1>10 DEF SubmitCrashes
<1>11. CASE Redeliver(j)
  BY <1>11 DEF Redeliver
<1>12. QED
  BY <1>2, <1>3, <1>4, <1>5, <1>6, <1>7, <1>8, <1>9, <1>10, <1>11 DEF SubmitStep

\* A download that has begun goes on, is refused, or is served.
LEMMA ContinueType ==
    ASSUME TypeInv, reader.pc # "idle", NEW pc \in ReadSteps, Continue(pc)
    PROVE  reader' \in ReaderType /\ ReaderSane'
<1>1. reader \in ReaderType /\ reader.job \in Jobs /\ reader.kind \in ArtifactKinds
  BY DEF TypeInv, TypeOK, ReaderSane
<1>2. reader' = [reader EXCEPT !.pc = pc]
  BY DEF Continue
<1>3. reader' \in ReaderType
  BY <1>1, <1>2 DEF ReaderType
<1>4. reader'.job = reader.job /\ reader'.kind = reader.kind
  BY <1>1, <1>2 DEF ReaderType
<1>5. QED
  BY <1>1, <1>3, <1>4 DEF ReaderSane

LEMMA RespondType ==
    ASSUME TypeInv, NEW code \in {200, 404, 409, 500}, NEW named \in BOOLEAN,
           Respond(code, named)
    PROVE  reader' \in ReaderType /\ ReaderSane'
BY DEF TypeInv, TypeOK, ReaderType, ReaderSane, Respond

LEMMA ReadType ==
    ASSUME TypeInv, Download
    PROVE  TypeInv'
<1>1. reader' \in ReaderType /\ ReaderSane'
  <2>1. ASSUME NEW j \in Jobs, NEW k \in Kinds, Request(j, k)
        PROVE  reader' \in ReaderType /\ ReaderSane'
    BY <2>1, KindsAssumption DEF Request, ReaderType, ReaderSane, ReadSteps, KindsAssumption
  <2>2. CASE ReadJob
    <3>1. reader.pc # "idle" /\ (Continue("get_report") \/ Respond(404, TRUE) \/ Respond(409, TRUE))
      <4>1. reader.pc = "get_job"
        BY <2>2 DEF ReadJob
      <4>2. CASE View(reader.job).status = "completed"
        BY <2>2, <4>1, <4>2, Zenon DEF ReadJob
      <4>3. CASE View(reader.job).status = "absent"
        BY <2>2, <4>1, <4>3, Zenon DEF ReadJob, Answer
      <4>4. CASE View(reader.job).status # "completed" /\ View(reader.job).status # "absent"
        BY <2>2, <4>1, <4>4, Zenon DEF ReadJob, Answer
      <4> QED BY <4>1, <4>2, <4>3, <4>4, Zenon
    <3>2. CASE Continue("get_report")
      BY <3>1, <3>2, ContinueType DEF ReadSteps
    <3>3. CASE Respond(404, TRUE)
      BY <3>3, RespondType
    <3>4. CASE Respond(409, TRUE)
      BY <3>4, RespondType
    <3> QED BY <3>1, <3>2, <3>3, <3>4
  <2>3. CASE ReadAgain
    BY <2>3, ContinueType, RespondType DEF Answer, ReadAgain, ReadSteps
  <2>4. CASE ReadData
    BY <2>4, ContinueType, RespondType DEF Answer, ReadData, ReadSteps
  <2>5. CASE ReadName
    BY <2>5, RespondType DEF ReadName
  <2>6. CASE ReadFails
    BY <2>6, RespondType DEF ReadFails, Answer
  <2>7. QED
    BY <2>1, <2>2, <2>3, <2>4, <2>5, <2>6 DEF Download
<1>2. /\ UNCHANGED <<store, queue, source, api, incoming, worker, crashes, redeliveries, hit>>
      /\ faults' = faults \/ (faults < MaxFaults /\ faults' = faults + 1)
  BY DEF Download, Request, ReadJob, ReadAgain, ReadData, ReadName, ReadFails, ReadOnly, budget
<1>3. QED
  BY <1>1, <1>2, BoundsAssumption DEF TypeInv, TypeOK, WorkerSane, store, BoundsAssumption

\* What a worker may become.
LEMMA WorkerFrame ==
    ASSUME TypeInv, NEW w \in Workers, NEW next \in WorkerType,
           worker' = [worker EXCEPT ![w] = next],
           next.pc # "idle" => next.job \in Jobs,
           next.pc = "idle" => next.job = NoJob,
           next.pc = "artname" => next.kind \in ArtifactKinds,
           next.pc \in {"store_artifacts", "artname", "final_expire"}
              => next.verdict \in Finished
    PROVE  worker' \in [Workers -> WorkerType] /\ WorkerSane'
BY DEF TypeInv, TypeOK, WorkerSane

\* A worker moves on to a step that needs nothing but its job.
LEMMA GotoType ==
    ASSUME TypeInv, NEW w \in Workers, NEW to \in WorkerSteps \ {"artname", "store_artifacts"},
           to = "final_expire" => worker[w].pc = "store_artifacts",
           worker[w].pc # "idle", worker' = [worker EXCEPT ![w].pc = to]
    PROVE  worker' \in [Workers -> WorkerType] /\ WorkerSane'
<1> DEFINE next == [worker[w] EXCEPT !.pc = to]
<1>1. worker[w] \in WorkerType
  BY DEF TypeInv, TypeOK
<1>2. next \in WorkerType
  BY <1>1 DEF WorkerType
<1>3. /\ next.pc = to /\ next.job = worker[w].job /\ next.verdict = worker[w].verdict
  BY <1>1 DEF WorkerType
<1>4. worker' = [worker EXCEPT ![w] = next]
  BY DEF TypeInv, TypeOK
<1>5. to # "idle"
  BY DEF WorkerSteps, TrySteps, BareSteps
<1> HIDE DEF next
<1>6. QED
  BY <1>2, <1>3, <1>4, <1>5, WorkerFrame DEF TypeInv, WorkerSane

LEMMA IdleType ==
    ASSUME TypeInv, NEW w \in Workers, worker' = [worker EXCEPT ![w] = Idle]
    PROVE  worker' \in [Workers -> WorkerType] /\ WorkerSane'
<1>1. Idle \in WorkerType /\ Idle.pc = "idle" /\ Idle.job = NoJob
  BY DEF Idle, WorkerType
<1>2. QED
  BY <1>1, WorkerFrame

\* What a step of a worker does to the other variables.
LEMMA StoreType ==
    ASSUME TypeInv, NEW w \in Workers, worker[w].pc # "idle",
           \/ WorkerStep(w) \/ WorkerFails(w) \/ WorkerCrashes(w)
    PROVE  /\ hash' \in [Jobs -> HashType]
           /\ upload' \in [Jobs -> [{"data", "name"} -> Keys]]
           /\ blob' \in [Jobs -> [ArtifactKinds -> Keys]]
           /\ artname' \in [Jobs -> [ArtifactKinds -> Keys]]
           /\ faults' \in 0 .. MaxFaults
           /\ crashes' \in 0 .. MaxCrashes
           /\ redeliveries' \in 0 .. MaxRedeliveries
           /\ hit' \in SUBSET Jobs
           /\ UNCHANGED <<queue, source, api, incoming, reader>>
<1> DEFINE j == worker[w].job
<1>1. /\ j \in Jobs /\ hash \in [Jobs -> HashType] /\ worker[w] \in WorkerType
      /\ faults \in Nat /\ crashes \in Nat
      /\ hit \in SUBSET Jobs
  BY BoundsAssumption DEF TypeInv, TypeOK, WorkerSane, BoundsAssumption
<1>2. Ttl \in Keys /\ 0 \in Keys
  BY TtlAssumption DEF TtlAssumption, Keys, Persistent
<1>3. ASSUME \/ RunHSet(w) \/ FailedHSet(w)
      PROVE  hash' \in [Jobs -> HashType]
  <2>1. HSet(j, "running") \in HashType /\ HSet(j, "failed") \in HashType
    BY <1>1, HSetType
  <2>2. QED
    BY <1>1, <1>3, <2>1 DEF RunHSet, FailedHSet
<1>4. ASSUME FinalHSet(w)
      PROVE  hash' \in [Jobs -> HashType]
  <2>1. worker[w].verdict \in Finished /\ worker[w].reports \in SUBSET Kinds
    BY <1>1, <1>4 DEF FinalHSet, Goto, TypeInv, WorkerSane, WorkerType
  <2>2. HSet(j, worker[w].verdict) \in HashType
    BY <1>1, <2>1, HSetType
  <2>3. [HSet(j, worker[w].verdict) EXCEPT !.result = worker[w].reports] \in HashType
    BY <2>1, <2>2 DEF HashType
  <2>4. QED
    BY <1>1, <1>4, <2>3 DEF FinalHSet
<1>5. ASSUME \/ RunExpire(w) \/ LastExpire(w)
      PROVE  hash' \in [Jobs -> HashType]
  BY <1>1, <1>5, ExpireType DEF RunExpire, LastExpire
<1>6. hash' \in [Jobs -> HashType]
  BY <1>1, <1>3, <1>4, <1>5
     DEF WorkerStep, WorkerFails, WorkerCrashes, Locate, FetchData, FetchName, FetchDelete,
         Pipeline, StoreBlob, SetBlob, StoreName, store
<1>7. /\ upload' \in [Jobs -> [{"data", "name"} -> Keys]]
      /\ blob' \in [Jobs -> [ArtifactKinds -> Keys]]
  <2>1. /\ upload \in [Jobs -> [{"data", "name"} -> Keys]]
        /\ blob \in [Jobs -> [ArtifactKinds -> Keys]]
    BY DEF TypeInv, TypeOK
  <2>2. CASE FetchDelete(w)
    <3>1. PICK f \in {"data", "name"} : upload' = [upload EXCEPT ![j][f] = 0]
      BY <2>2 DEF FetchDelete
    <3>2. upload' \in [Jobs -> [{"data", "name"} -> Keys]]
      BY <1>1, <1>2, <2>1, <3>1
    <3>3. UNCHANGED blob
      BY <2>2 DEF FetchDelete
    <3>4. QED
      BY <2>1, <3>2, <3>3
  <2>3. CASE \E k \in ArtifactKinds : StoreBlob(w, k)
    BY <1>1, <1>2, <2>1, <2>3 DEF StoreBlob, SetBlob
  <2>4. CASE ~FetchDelete(w) /\ ~\E k \in ArtifactKinds : StoreBlob(w, k)
    <3>1. UNCHANGED <<upload, blob>>
      BY <2>4
         DEF WorkerStep, WorkerFails, WorkerCrashes, RunHSet, RunExpire, Locate, FetchData,
             FetchName, Pipeline, StoreName, FinalHSet, FailedHSet, LastExpire, store
    <3>2. QED
      BY <2>1, <3>1
  <2>5. QED
    BY <2>2, <2>3, <2>4
<1>8. artname' \in [Jobs -> [ArtifactKinds -> Keys]]
  <2>1. CASE StoreName(w)
    BY <1>1, <1>2, <2>1 DEF StoreName, TypeInv, TypeOK, WorkerSane
  <2>2. CASE ~StoreName(w)
    BY <2>2
       DEF WorkerStep, WorkerFails, WorkerCrashes, RunHSet, RunExpire, Locate, FetchData,
           FetchName, FetchDelete, Pipeline, StoreBlob, SetBlob, FinalHSet, FailedHSet, LastExpire,
           store, TypeInv, TypeOK
  <2>3. QED
    BY <2>1, <2>2
<1>9. /\ faults' \in 0 .. MaxFaults /\ crashes' \in 0 .. MaxCrashes
      /\ redeliveries' \in 0 .. MaxRedeliveries /\ hit' \in SUBSET Jobs
  <2>1. /\ faults \in 0 .. MaxFaults /\ crashes \in 0 .. MaxCrashes
        /\ redeliveries \in 0 .. MaxRedeliveries /\ hit \in SUBSET Jobs
    BY DEF TypeInv, TypeOK
  <2>2. CASE WorkerFails(w)
    BY <1>1, <2>1, <2>2, BoundsAssumption DEF WorkerFails, BoundsAssumption
  <2>3. CASE WorkerCrashes(w)
    BY <1>1, <2>1, <2>3, BoundsAssumption DEF WorkerCrashes, BoundsAssumption
  <2>4. CASE WorkerStep(w)
    <3>1. UNCHANGED budget
      BY <2>4
         DEF WorkerStep, RunHSet, RunExpire, Locate, FetchData, FetchName, FetchDelete, Pipeline,
             StoreBlob, SetBlob, StoreName, FinalHSet, FailedHSet, LastExpire, Goto
    <3>2. QED
      BY <2>1, <3>1 DEF budget
  <2>5. QED
    BY <2>2, <2>3, <2>4
<1>10. UNCHANGED <<queue, source, api, incoming, reader>>
  BY DEF WorkerStep, WorkerFails, WorkerCrashes, RunHSet, RunExpire, Locate, FetchData, FetchName,
         FetchDelete, Pipeline, StoreBlob, SetBlob, StoreName, FinalHSet, FailedHSet, LastExpire,
         Goto
<1>11. QED
  BY <1>6, <1>7, <1>8, <1>9, <1>10 DEF TypeInv, TypeOK

\* What a step of a worker makes of the worker itself.
LEMMA WorkerSteppedType ==
    ASSUME TypeInv, NEW w \in Workers, worker[w].pc # "idle",
           \/ WorkerStep(w) \/ WorkerFails(w) \/ WorkerCrashes(w)
    PROVE  worker' \in [Workers -> WorkerType] /\ WorkerSane'
<1>1. /\ worker[w] \in WorkerType /\ worker[w].job \in Jobs
      /\ worker[w].todo \in SUBSET ArtifactKinds
  BY DEF TypeInv, TypeOK, WorkerSane, WorkerType
<1>2. ASSUME \/ RunHSet(w) \/ RunExpire(w) \/ Locate(w) \/ FetchData(w) \/ FetchName(w)
             \/ FetchDelete(w) \/ FinalHSet(w) \/ FailedHSet(w)
      PROVE  worker' \in [Workers -> WorkerType] /\ WorkerSane'
  <2> DEFINE Moves(to) == /\ worker' = [worker EXCEPT ![w].pc = to]
                          /\ to = "final_expire" => worker[w].pc = "store_artifacts"
  <2>1. \E to \in WorkerSteps \ {"artname", "store_artifacts"} : Moves(to)
    <3>1. /\ {"running_expire", "locate", "pipeline", "fetch_data", "failed_hset", "fetch_name",
             "fetch_del_data", "fetch_del_name", "final_expire", "failed_expire"}
               \subseteq WorkerSteps \ {"artname", "store_artifacts"}
      BY DEF WorkerSteps, TrySteps, BareSteps
    <3>2. CASE RunHSet(w)
      <4>1. Moves("running_expire") BY <3>2 DEF RunHSet, Goto
      <4> QED BY <4>1, <3>1
    <3>3. CASE RunExpire(w)
      <4>1. Moves("locate") BY <3>3 DEF RunExpire, Goto
      <4> QED BY <4>1, <3>1
    <3>4. CASE Locate(w)
      <4>1. Moves("pipeline") \/ Moves("fetch_data") BY <3>4 DEF Locate, Goto
      <4> QED BY <4>1, <3>1
    <3>5. CASE FetchData(w)
      <4>1. Moves("fetch_name") \/ Moves("failed_hset") BY <3>5 DEF FetchData, Goto
      <4> QED BY <4>1, <3>1
    <3>6. CASE FetchName(w)
      <4>1. Moves("fetch_del_data") BY <3>6 DEF FetchName, Goto
      <4> QED BY <4>1, <3>1
    <3>7. CASE FetchDelete(w)
      <4>1. Moves("fetch_del_name") \/ Moves("pipeline") BY <3>7 DEF FetchDelete, Goto
      <4> QED BY <4>1, <3>1
    <3>8. CASE FinalHSet(w)
      <4>1. Moves("final_expire") BY <3>8 DEF FinalHSet, Goto
      <4> QED BY <4>1, <3>1
    <3>9. CASE FailedHSet(w)
      <4>1. Moves("failed_expire") BY <3>9 DEF FailedHSet, Goto
      <4> QED BY <4>1, <3>1
    <3> QED BY <1>2, <3>2, <3>3, <3>4, <3>5, <3>6, <3>7, <3>8, <3>9
  <2>2. QED
    BY <2>1, GotoType
<1>3. ASSUME WorkerFails(w)
      PROVE  worker' \in [Workers -> WorkerType] /\ WorkerSane'
  <2>1. CASE worker' = [worker EXCEPT ![w].pc = "failed_hset"]
    BY <2>1, GotoType DEF WorkerSteps, BareSteps
  <2>2. CASE worker' = [worker EXCEPT ![w] = Idle]
    BY <2>2, IdleType
  <2>3. QED
    BY <1>3, <2>1, <2>2 DEF WorkerFails
<1>4. ASSUME \/ WorkerCrashes(w) \/ LastExpire(w)
      PROVE  worker' \in [Workers -> WorkerType] /\ WorkerSane'
  BY <1>4, IdleType DEF WorkerCrashes, LastExpire
<1>5. ASSUME Pipeline(w)
      PROVE  worker' \in [Workers -> WorkerType] /\ WorkerSane'
  <2>1. CASE worker' = [worker EXCEPT ![w].pc = "failed_hset"]
    BY <2>1, GotoType DEF WorkerSteps, BareSteps
  <2>2. ASSUME NEW verdict \in Finished, NEW reports \in SUBSET Kinds,
               worker' = [worker EXCEPT ![w] =
                    [pc |-> "store_artifacts", job |-> worker[w].job, verdict |-> verdict,
                     reports |-> reports, todo |-> reports \cap ArtifactKinds,
                     kind |-> NoKind]]
        PROVE  worker' \in [Workers -> WorkerType] /\ WorkerSane'
    <3> DEFINE next == [pc |-> "store_artifacts", job |-> worker[w].job, verdict |-> verdict,
                        reports |-> reports, todo |-> reports \cap ArtifactKinds,
                        kind |-> NoKind]
    <3>1. /\ next \in WorkerType /\ next.pc = "store_artifacts" /\ next.job \in Jobs
          /\ next.verdict \in Finished
      BY <1>1 DEF WorkerType, WorkerSteps, TrySteps
    <3>2. worker' = [worker EXCEPT ![w] = next]
      BY <2>2
    <3> HIDE DEF next
    <3>3. QED
      BY <3>1, <3>2, WorkerFrame
  <2>3. QED
    BY <1>5, <2>1, <2>2 DEF Pipeline
<1>6. ASSUME NEW pc \in {"store_artifacts", "artname"}, NEW k \in Kinds \cup {NoKind},
             pc = "artname" => k \in ArtifactKinds,
             worker[w].pc \in {"store_artifacts", "artname"},
             NEW left \in SUBSET ArtifactKinds,
             worker' = [worker EXCEPT ![w] = Storing(w, pc, k, left)]
      PROVE  worker' \in [Workers -> WorkerType] /\ WorkerSane'
  <2>1. worker[w].verdict \in Finished /\ worker[w].reports \in SUBSET Kinds
    BY <1>1, <1>6 DEF TypeInv, WorkerSane, WorkerType
  <2>2. /\ Storing(w, pc, k, left) \in WorkerType
        /\ Storing(w, pc, k, left).pc = pc
        /\ Storing(w, pc, k, left).job \in Jobs
        /\ Storing(w, pc, k, left).kind = k
        /\ Storing(w, pc, k, left).verdict \in Finished
    BY <1>1, <2>1 DEF Storing, WorkerType, WorkerSteps, TrySteps
  <2>3. QED
    BY <1>6, <2>2, WorkerFrame
<1>7. ASSUME NEW k \in ArtifactKinds, StoreBlob(w, k)
      PROVE  worker' \in [Workers -> WorkerType] /\ WorkerSane'
  BY <1>1, <1>6, <1>7, KindsAssumption DEF StoreBlob, SetBlob, NameNext, KindsAssumption
<1>8. ASSUME StoreName(w)
      PROVE  worker' \in [Workers -> WorkerType] /\ WorkerSane'
  <2>1. worker[w].todo \ {worker[w].kind} \in SUBSET ArtifactKinds
    BY <1>1
  <2>2. QED
    BY <1>6, <1>8, <2>1 DEF StoreName
<1>9. QED
  BY <1>2, <1>3, <1>4, <1>5, <1>7, <1>8 DEF WorkerStep

\* Whoever steps is not idle.
LEMMA StepsAtWork ==
    ASSUME NEW w \in Workers,
           \/ WorkerStep(w) \/ WorkerFails(w) \/ WorkerCrashes(w)
    PROVE  worker[w].pc # "idle"
BY DEF WorkerStep, WorkerFails, WorkerCrashes, RunHSet, RunExpire, Locate, FetchData, FetchName,
       FetchDelete, Pipeline, StoreBlob, SetBlob, StoreName, FinalHSet, FailedHSet, LastExpire,
       Goto, TrySteps, BareSteps

LEMMA TakeType ==
    ASSUME TypeInv, NEW w \in Workers, NEW j \in Jobs, Take(w, j)
    PROVE  TypeInv'
<1> DEFINE next == [Idle EXCEPT !.pc = "running_hset", !.job = j]
<1>1. /\ next \in WorkerType /\ next.pc = "running_hset" /\ next.job = j
  BY DEF Idle, WorkerType, WorkerSteps, BareSteps
<1>2. worker' = [worker EXCEPT ![w] = next]
  BY DEF Take, Begin
<1> HIDE DEF next
<1>3. worker' \in [Workers -> WorkerType] /\ WorkerSane'
  BY <1>1, <1>2, WorkerFrame
<1>4. /\ UNCHANGED <<store, source, api, incoming, reader, budget>>
      /\ queue' \in [Jobs -> Nat]
  BY DEF Take, Begin, TypeInv, TypeOK
<1>5. QED
  BY <1>3, <1>4 DEF TypeInv, TypeOK, ReaderSane, store, budget

\* A tick ages every key.
LEMMA TickType ==
    ASSUME TypeInv, Tick
    PROVE  TypeInv'
<1>1. \A key \in Keys : Older(key) \in Keys
  BY TtlAssumption DEF TtlAssumption, Keys, Persistent, Older
<1>2. NoHash \in HashType
  BY TtlAssumption DEF TtlAssumption, NoHash, HashType, Keys, Persistent
<1>3. ASSUME NEW j \in Jobs
      PROVE  [hash[j] EXCEPT !.ttl = Older(@)] \in HashType
  BY <1>1 DEF TypeInv, TypeOK, HashType
<1>4. hash' \in [Jobs -> HashType]
  BY <1>2, <1>3 DEF Tick
<1>5. /\ upload' \in [Jobs -> [{"data", "name"} -> Keys]]
      /\ blob' \in [Jobs -> [ArtifactKinds -> Keys]]
      /\ artname' \in [Jobs -> [ArtifactKinds -> Keys]]
  BY <1>1 DEF Tick, TypeInv, TypeOK
<1>6. UNCHANGED <<queue, source, api, incoming, worker, reader, budget>>
  BY DEF Tick
<1>7. QED
  BY <1>4, <1>5, <1>6 DEF TypeInv, TypeOK, WorkerSane, ReaderSane, budget

LEMMA StutterType ==
    ASSUME TypeInv, UNCHANGED vars
    PROVE  TypeInv'
BY DEF TypeInv, TypeOK, WorkerSane, ReaderSane, vars, store, budget

LEMMA NextType ==
    ASSUME TypeInv, [Next]_vars
    PROVE  TypeInv'
<1>1. ASSUME NEW j \in Jobs,
             \/ Receive(j) \/ ReceiveTooLarge(j)
             \/ SubmitStep(j) \/ SubmitFails(j) \/ SubmitCrashes(j)
             \/ Redeliver(j)
      PROVE  TypeInv'
  BY <1>1, SubmitType
<1>2. ASSUME NEW w \in Workers, NEW j \in Jobs, Take(w, j)
      PROVE  TypeInv'
  BY <1>2, TakeType
<1>3. ASSUME NEW w \in Workers, WorkerStep(w) \/ WorkerFails(w) \/ WorkerCrashes(w)
      PROVE  TypeInv'
  <2>1. worker[w].pc # "idle"
    BY <1>3, StepsAtWork
  <2>2. worker' \in [Workers -> WorkerType] /\ WorkerSane'
    BY <1>3, <2>1, WorkerSteppedType
  <2>3. /\ hash' \in [Jobs -> HashType]
        /\ upload' \in [Jobs -> [{"data", "name"} -> Keys]]
        /\ blob' \in [Jobs -> [ArtifactKinds -> Keys]]
        /\ artname' \in [Jobs -> [ArtifactKinds -> Keys]]
        /\ faults' \in 0 .. MaxFaults
        /\ crashes' \in 0 .. MaxCrashes
        /\ redeliveries' \in 0 .. MaxRedeliveries
        /\ hit' \in SUBSET Jobs
        /\ UNCHANGED <<queue, source, api, incoming, reader>>
    BY <1>3, <2>1, StoreType
  <2>4. QED
    BY <2>2, <2>3 DEF TypeInv, TypeOK, ReaderSane
<1>4. CASE Download
  BY <1>4, ReadType
<1>5. CASE Tick
  BY <1>5, TickType
<1>6. CASE UNCHANGED vars
  BY <1>6, StutterType
<1>7. QED
  BY <1>1, <1>2, <1>3, <1>4, <1>5, <1>6 DEF Next

\* The variables keep their types: no sequence of requests, tasks, failures and
\* ticks leaves a status, a key or a step the code does not know.
THEOREM TypeCorrect == Spec => []TypeOK
<1>1. Init => TypeInv
  BY InitType
<1>2. TypeInv /\ [Next]_vars => TypeInv'
  BY NextType
<1>3. TypeInv => TypeOK
  BY DEF TypeInv
<1>4. QED
  BY <1>1, <1>2, <1>3, PTL DEF Spec

(***************************************************************************)
(* A completed job has its reports, while no TTL runs out.  Inductive only *)
(* together with what a worker has stored so far: all reports except the   *)
(* ones still to do, and the bytes of the one whose name comes next.       *)
(***************************************************************************)
StoredSoFar ==
    \A w \in Workers :
        /\ worker[w].pc \in {"store_artifacts", "artname"}
              => (worker[w].reports \cap ArtifactKinds) \ worker[w].todo
                    \subseteq Stored(worker[w].job)
        /\ worker[w].pc = "artname" => Exists(blob[worker[w].job][worker[w].kind])

ArtifactInv == TypeInv /\ StoredSoFar /\ CompletedHasArtifacts

\* What writes to the report keys: nothing else does, while no TTL runs out.
LEMMA ReportWrites ==
    ASSUME Next, ~TtlPasses
    PROVE  \/ UNCHANGED <<blob, artname>>
           \/ \E w \in Workers, k \in ArtifactKinds : StoreBlob(w, k)
           \/ \E w \in Workers : StoreName(w)
BY DEF Next, Receive, ReceiveTooLarge, SubmitStep, SubmitTo, SubmitHSet, SubmitExpire,
       StoreUploadData, StoreUploadName, Delay, SubmitFails, SubmitCrashes, Redeliver, Take, Begin,
       WorkerStep, WorkerFails, WorkerCrashes, RunHSet, RunExpire, Locate, FetchData, FetchName,
       FetchDelete, Pipeline, FinalHSet, FailedHSet, LastExpire, Download, Request, ReadJob,
       ReadAgain, ReadData, ReadName, ReadFails, ReadOnly, Tick, store

\* A stored report stays stored.
LEMMA StoredGrows ==
    ASSUME TypeInv, [Next]_vars, ~TtlPasses, NEW j \in Jobs
    PROVE  /\ Stored(j) \subseteq Stored(j)'
           /\ \A k \in ArtifactKinds : Exists(blob[j][k]) => Exists(blob'[j][k])
<1>1. /\ blob \in [Jobs -> [ArtifactKinds -> Keys]]
      /\ artname \in [Jobs -> [ArtifactKinds -> Keys]]
      /\ Ttl # 0
  BY TtlAssumption DEF TypeInv, TypeOK, TtlAssumption
<1>2. CASE UNCHANGED <<blob, artname>>
  BY <1>2 DEF Stored
<1>3. ASSUME NEW w \in Workers, NEW k \in ArtifactKinds, StoreBlob(w, k)
      PROVE  \A i \in ArtifactKinds : /\ Exists(blob[j][i]) => Exists(blob'[j][i])
                                      /\ artname'[j][i] = artname[j][i]
  BY <1>1, <1>3 DEF StoreBlob, SetBlob
<1>4. ASSUME NEW w \in Workers, StoreName(w)
      PROVE  \A i \in ArtifactKinds : /\ Exists(artname[j][i]) => Exists(artname'[j][i])
                                      /\ blob'[j][i] = blob[j][i]
  BY <1>1, <1>4 DEF StoreName
<1>5. CASE UNCHANGED vars
  BY <1>5 DEF vars, store, Stored
<1>6. QED
  BY <1>2, <1>3, <1>4, <1>5, ReportWrites DEF Stored

\* Only the last HSET of a task makes a job completed, or changes its result.
LEMMA CompletedBy ==
    ASSUME TypeInv, [Next]_vars, ~TtlPasses, NEW j \in Jobs,
           hash'[j].status = "completed",
           ~\E w \in Workers : FinalHSet(w) /\ worker[w].job = j
    PROVE  hash[j].status = "completed" /\ hash'[j].result = hash[j].result
<1>1. hash \in [Jobs -> HashType] /\ hash[j] \in HashType
  BY DEF TypeInv, TypeOK
<1>2. ASSUME NEW i \in Jobs, NEW s \in {"queued", "running", "failed"},
             \/ hash' = [hash EXCEPT ![i] = HSet(i, s)]
             \/ hash' = [hash EXCEPT ![i] = [HSet(i, s) EXCEPT !.plan = TRUE]]
      PROVE  hash[j].status = "completed" /\ hash'[j].result = hash[j].result
  <2>1. HSet(i, s) \in HashType
    BY <1>1, HSetType
  <2>2. HSet(i, s).status = s /\ [HSet(i, s) EXCEPT !.plan = TRUE].status = s
    <3>1. hash[i] \in HashType
      BY <1>1
    <3>2. HSet(i, s).status = s
      BY <3>1 DEF HSet, HashType
    <3>3. QED
      BY <2>1, <3>2 DEF HashType
  <2>3. i # j
    BY <1>1, <1>2, <2>2
  <2>4. QED
    BY <1>1, <1>2, <2>3
<1>3. ASSUME NEW i \in Jobs, Expire(i)
      PROVE  hash'[j].status = hash[j].status /\ hash'[j].result = hash[j].result
  BY <1>1, <1>3 DEF Expire, HashType
<1>4. ASSUME NEW w \in Workers, FinalHSet(w)
      PROVE  hash'[j] = hash[j]
  BY <1>1, <1>4 DEF FinalHSet
<1>5. ASSUME NEW w \in Workers, worker[w].pc # "idle"
      PROVE  worker[w].job \in Jobs
  BY <1>5 DEF TypeInv, WorkerSane
<1>6. ASSUME NEW i \in Jobs,
             \/ Receive(i) \/ ReceiveTooLarge(i)
             \/ SubmitStep(i) \/ SubmitFails(i) \/ SubmitCrashes(i)
             \/ Redeliver(i) \/ \E w \in Workers : Take(w, i)
      PROVE  hash[j].status = "completed" /\ hash'[j].result = hash[j].result
  <2>1. CASE SubmitHSet(i)
    BY <1>2, <2>1 DEF SubmitHSet
  <2>2. CASE SubmitExpire(i)
    BY <1>3, <2>2 DEF SubmitExpire
  <2>3. CASE ~SubmitHSet(i) /\ ~SubmitExpire(i)
    BY <1>6, <2>3
       DEF Receive, ReceiveTooLarge, SubmitStep, StoreUploadData, StoreUploadName, Delay,
           SubmitFails, SubmitCrashes, Redeliver, Take, Begin, store
  <2>4. QED
    BY <2>1, <2>2, <2>3
<1>7. ASSUME NEW w \in Workers, WorkerStep(w) \/ WorkerFails(w) \/ WorkerCrashes(w)
      PROVE  hash[j].status = "completed" /\ hash'[j].result = hash[j].result
  <2>1. worker[w].job \in Jobs
    BY <1>5, <1>7, StepsAtWork
  <2>2. CASE RunHSet(w)
    BY <1>2, <2>1, <2>2 DEF RunHSet
  <2>3. CASE FailedHSet(w)
    BY <1>2, <2>1, <2>3 DEF FailedHSet
  <2>4. CASE RunExpire(w) \/ LastExpire(w)
    BY <1>3, <2>1, <2>4 DEF RunExpire, LastExpire
  <2>5. CASE FinalHSet(w)
    BY <1>4, <2>5
  <2>6. CASE /\ ~RunHSet(w) /\ ~FailedHSet(w) /\ ~RunExpire(w) /\ ~LastExpire(w)
             /\ ~FinalHSet(w)
    BY <1>7, <2>6
       DEF WorkerStep, WorkerFails, WorkerCrashes, Locate, FetchData, FetchName, FetchDelete,
           Pipeline, StoreBlob, SetBlob, StoreName, store
  <2>7. QED
    BY <2>2, <2>3, <2>4, <2>5, <2>6
<1>8. CASE Download
  BY <1>8 DEF Download, Request, ReadJob, ReadAgain, ReadData, ReadName, ReadFails, ReadOnly, store
<1>9. CASE UNCHANGED vars
  BY <1>9 DEF vars, store
<1>10. QED
  BY <1>6, <1>7, <1>8, <1>9 DEF Next, Tick

\* Stored, after the step.
StoredNext(j) ==
    {k \in ArtifactKinds : Exists(blob'[j][k]) /\ Exists(artname'[j][k])}

\* What a worker is about to store, or has stored, says no more than the truth.
LEMMA ProgressKept ==
    ASSUME TypeInv, StoredSoFar, [Next]_vars, ~TtlPasses
    PROVE  StoredSoFar'
<1> SUFFICES ASSUME NEW w \in Workers, worker'[w].pc \in {"store_artifacts", "artname"}
             PROVE  /\ (worker'[w].reports \cap ArtifactKinds) \ worker'[w].todo
                           \subseteq StoredNext(worker'[w].job)
                    /\ worker'[w].pc = "artname"
                           => Exists(blob'[worker'[w].job][worker'[w].kind])
  BY DEF StoredSoFar, Stored, StoredNext
<1>1. /\ worker \in [Workers -> WorkerType] /\ worker[w] \in WorkerType
      /\ blob \in [Jobs -> [ArtifactKinds -> Keys]]
      /\ artname \in [Jobs -> [ArtifactKinds -> Keys]]
      /\ Ttl # 0
  BY TtlAssumption DEF TypeInv, TypeOK, TtlAssumption
<1>2. CASE worker'[w] = worker[w]
  <2>1. worker[w].job \in Jobs
    BY <1>2 DEF TypeInv, WorkerSane
  <2>2. worker[w].pc = "artname" => worker[w].kind \in ArtifactKinds
    BY DEF TypeInv, WorkerSane
  <2>3. QED
    BY <1>2, <2>1, <2>2, StoredGrows DEF StoredSoFar, Stored, StoredNext
<1> DEFINE j == worker[w].job
           Goal == /\ (worker'[w].reports \cap ArtifactKinds) \ worker'[w].todo
                           \subseteq StoredNext(worker'[w].job)
                   /\ worker'[w].pc = "artname"
                           => Exists(blob'[worker'[w].job][worker'[w].kind])
<1>3. ASSUME NEW k \in ArtifactKinds, StoreBlob(w, k)
      PROVE  Goal
  <2>1. /\ worker[w].pc = "store_artifacts" /\ j \in Jobs
        /\ blob' = [blob EXCEPT ![j][k] = Ttl]
        /\ worker' = [worker EXCEPT ![w] = Storing(w, "artname", k, worker[w].todo)]
    BY <1>3 DEF StoreBlob, SetBlob, NameNext, TypeInv, WorkerSane
  <2>2. /\ worker'[w].job = j /\ worker'[w].kind = k
        /\ worker'[w].reports = worker[w].reports /\ worker'[w].todo = worker[w].todo
    BY <1>1, <2>1 DEF Storing
  <2>3. (worker[w].reports \cap ArtifactKinds) \ worker[w].todo \subseteq Stored(j)
    BY <2>1 DEF StoredSoFar
  <2>4. Stored(j) \subseteq StoredNext(j)
    BY <2>1, StoredGrows DEF Stored, StoredNext
  <2>5. Exists(blob'[j][k])
    BY <1>1, <2>1
  <2>6. QED
    BY <2>1, <2>2, <2>3, <2>4, <2>5
<1>4. ASSUME StoreName(w)
      PROVE  Goal
  <2> DEFINE k == worker[w].kind
  <2>1. /\ worker[w].pc = "artname" /\ j \in Jobs /\ k \in ArtifactKinds
        /\ artname' = [artname EXCEPT ![j][k] = Ttl] /\ blob' = blob
        /\ worker' = [worker EXCEPT ![w] =
                         Storing(w, "store_artifacts", NoKind, worker[w].todo \ {k})]
    BY <1>4 DEF StoreName, TypeInv, WorkerSane
  <2>2. /\ worker'[w].job = j /\ worker'[w].pc = "store_artifacts"
        /\ worker'[w].reports = worker[w].reports /\ worker'[w].todo = worker[w].todo \ {k}
    BY <1>1, <2>1 DEF Storing
  <2>3. /\ (worker[w].reports \cap ArtifactKinds) \ worker[w].todo \subseteq Stored(j)
        /\ Exists(blob[j][k])
    BY <2>1 DEF StoredSoFar
  <2>4. Stored(j) \subseteq StoredNext(j)
    BY <2>1, StoredGrows DEF Stored, StoredNext
  <2>5. Exists(blob'[j][k]) /\ Exists(artname'[j][k])
    BY <1>1, <2>1, <2>3
  <2>6. k \in StoredNext(j)
    BY <2>1, <2>5 DEF StoredNext
  <2>7. QED
    BY <2>2, <2>3, <2>4, <2>6
<1>5. ASSUME Pipeline(w), worker'[w].pc = "store_artifacts"
      PROVE  Goal
  <2>1. PICK reports \in SUBSET Kinds :
            /\ worker'[w].reports = reports
            /\ worker'[w].todo = reports \cap ArtifactKinds
    BY <1>1, <1>5 DEF Pipeline, WorkerType
  <2>2. QED
    BY <1>5, <2>1
<1>6. \/ worker'[w] = worker[w]
      \/ \E k \in ArtifactKinds : StoreBlob(w, k)
      \/ StoreName(w)
      \/ Pipeline(w) /\ worker'[w].pc = "store_artifacts"
  <2>1. ASSUME NEW v \in Workers, v # w,
               \/ \E i \in Jobs : Take(v, i)
               \/ WorkerStep(v) \/ WorkerFails(v) \/ WorkerCrashes(v)
        PROVE  worker'[w] = worker[w]
    BY <1>1, <2>1
       DEF Take, Begin, WorkerStep, WorkerFails, WorkerCrashes, RunHSet, RunExpire, Locate,
           FetchData, FetchName, FetchDelete, Pipeline, StoreBlob, SetBlob, StoreName, FinalHSet,
           FailedHSet, LastExpire, Goto
  <2>2. ASSUME NEW i \in Jobs, Take(w, i)
        PROVE  worker'[w].pc = "running_hset"
    BY <1>1, <2>2 DEF Take, Begin, Idle
  <2>3. ASSUME WorkerFails(w) \/ WorkerCrashes(w) \/ LastExpire(w)
        PROVE  worker'[w].pc \in {"idle", "failed_hset"}
    BY <1>1, <2>3 DEF WorkerFails, WorkerCrashes, LastExpire, Idle, WorkerType
  <2>4. ASSUME \/ RunHSet(w) \/ RunExpire(w) \/ Locate(w) \/ FetchData(w) \/ FetchName(w)
               \/ FetchDelete(w) \/ FinalHSet(w) \/ FailedHSet(w)
        PROVE  worker'[w].pc \notin {"store_artifacts", "artname"}
    BY <1>1, <2>4
       DEF RunHSet, RunExpire, Locate, FetchData, FetchName, FetchDelete, FinalHSet, FailedHSet,
           Goto, WorkerType
  <2>5. ASSUME Pipeline(w), worker'[w].pc # "store_artifacts"
        PROVE  worker'[w].pc = "failed_hset"
    BY <1>1, <2>5 DEF Pipeline, WorkerType
  <2>6. ASSUME NEW i \in Jobs,
               \/ Receive(i) \/ ReceiveTooLarge(i)
               \/ SubmitStep(i) \/ SubmitFails(i) \/ SubmitCrashes(i)
               \/ Redeliver(i)
        PROVE  worker' = worker
    BY <2>6
       DEF Receive, ReceiveTooLarge, SubmitStep, SubmitTo, SubmitHSet, SubmitExpire,
           StoreUploadData, StoreUploadName, Delay, SubmitFails, SubmitCrashes, Redeliver
  <2>7. ASSUME \/ Download \/ Tick \/ UNCHANGED vars
        PROVE  worker' = worker
    BY <2>7 DEF Download, Request, ReadJob, ReadAgain, ReadData, ReadName, ReadFails, ReadOnly,
                Tick, vars
  <2>8. CASE \E v \in Workers : \/ \E i \in Jobs : Take(v, i)
                               \/ WorkerStep(v) \/ WorkerFails(v) \/ WorkerCrashes(v)
    BY <2>1, <2>2, <2>3, <2>4, <2>5, <2>8 DEF WorkerStep
  <2>9. QED
    BY <2>6, <2>7, <2>8 DEF Next
<1>7. QED
  BY <1>2, <1>3, <1>4, <1>5, <1>6

LEMMA ArtifactStep ==
    ASSUME ArtifactInv, [Next]_vars, ~TtlPasses
    PROVE  ArtifactInv'
<1>1. TypeInv' /\ StoredSoFar'
  BY NextType, ProgressKept DEF ArtifactInv
<1>2. ASSUME NEW j \in Jobs, hash'[j].status = "completed"
      PROVE  hash'[j].result \cap ArtifactKinds \subseteq Stored(j)'
  <2>1. Stored(j) \subseteq Stored(j)'
    BY StoredGrows DEF ArtifactInv
  <2>2. ASSUME NEW w \in Workers, FinalHSet(w), worker[w].job = j
        PROVE  hash'[j].result \cap ArtifactKinds \subseteq Stored(j)'
    <3>1. /\ worker[w].reports \cap ArtifactKinds \subseteq Stored(j)
          /\ worker[w].verdict \in Finished /\ worker[w].reports \in SUBSET Kinds
      BY <2>2 DEF FinalHSet, Goto, ArtifactInv, StoredSoFar, TypeInv, TypeOK, WorkerSane, WorkerType
    <3>2. HSet(j, worker[w].verdict) \in HashType
      BY <3>1, HSetType DEF ArtifactInv, TypeInv, TypeOK
    <3>3. [HSet(j, worker[w].verdict) EXCEPT !.result = worker[w].reports].result
             = worker[w].reports
      BY <3>2 DEF HashType
    <3>4. hash'[j].result = worker[w].reports
      BY <2>2, <3>3 DEF FinalHSet, ArtifactInv, TypeInv, TypeOK
    <3>5. QED
      BY <2>1, <3>1, <3>4
  <2>3. CASE ~\E w \in Workers : FinalHSet(w) /\ worker[w].job = j
    <3>1. hash[j].status = "completed" /\ hash'[j].result = hash[j].result
      BY <1>2, <2>3, CompletedBy DEF ArtifactInv
    <3>2. hash[j].result \cap ArtifactKinds \subseteq Stored(j)
      BY <3>1 DEF ArtifactInv, CompletedHasArtifacts
    <3>3. QED
      BY <2>1, <3>1, <3>2
  <2>4. QED
    BY <2>2, <2>3
<1>3. CompletedHasArtifacts'
  BY <1>2 DEF CompletedHasArtifacts, Stored
<1>4. QED
  BY <1>1, <1>3 DEF ArtifactInv

\* A client that reads completed can have every report the result lists, from
\* any replica, whatever failed, crashed, was redelivered or ran at the same
\* time, as long as the store keeps the reports (no TTL runs out).
THEOREM CompletedServed == ~TtlPasses => (Spec => []CompletedHasArtifacts)
<1> SUFFICES ASSUME ~TtlPasses
             PROVE  Spec => []CompletedHasArtifacts
  OBVIOUS
<1>1. Init => ArtifactInv
  BY InitType DEF Init, ArtifactInv, StoredSoFar, CompletedHasArtifacts, Idle, NoHash
<1>2. ArtifactInv /\ [Next]_vars => ArtifactInv'
  BY ArtifactStep
<1>3. ArtifactInv => CompletedHasArtifacts
  BY DEF ArtifactInv
<1>4. QED
  BY <1>1, <1>2, <1>3, PTL DEF Spec

(***************************************************************************)
(* One delivery per message.  While the broker redelivers nothing, a job   *)
(* belongs to one request, then to one message, then to one worker, and its*)
(* status, its upload and its reports say how far that one has come.       *)
(***************************************************************************)
\* No worker has job j.
Free(j) == \A w \in Workers : worker[w].job # j

\* A message is delivered to one worker: no two workers have the same job.
OneOwner ==
    \A v, w \in Workers :
        (worker[v].job \in Jobs /\ worker[v].job = worker[w].job) => v = w

\* Nothing of a report of job j is in the store ...
Bare(j) == \A k \in ArtifactKinds : ~Exists(blob[j][k]) /\ ~Exists(artname[j][k])

\* ... or what is there is complete, and part of the result.
Settled(j) ==
    \A k \in ArtifactKinds :
        Exists(blob[j][k]) \/ Exists(artname[j][k]) => Exists(artname[j][k]) /\ k \in hash[j].result

Unwritten == {"new", "refused", "queued_hset"}
ApiSteps == {"new", "refused", "error", "accepted"} \cup SubmitSteps
Submitting == {"queued_expire", "upload_data", "upload_name", "delay"}

\* How the request, the message, the status, the upload and the reports of a job
\* go together.
JobInv(j) ==
    /\ queue[j] \in {0, 1}
    /\ queue[j] > 0 => Free(j) /\ hash[j].status = "queued"
    /\ api[j] \in Unwritten \cup Submitting => queue[j] = 0 /\ Free(j)
    /\ api[j] \in Unwritten => hash[j].status = "absent"
    /\ api[j] \in Submitting => hash[j].status = "queued"
    /\ (source[j] = "ifc" /\ (api[j] \in {"upload_name", "delay"} \/ queue[j] > 0))
          => Exists(upload[j]["data"])
    /\ (source[j] = "ifc" /\ (api[j] = "delay" \/ queue[j] > 0)) => Exists(upload[j]["name"])
    /\ hash[j].status \in {"absent", "queued"} => Bare(j)
    /\ hash[j].status \notin Finished => hash[j].result = {}
    /\ hash[j].status = "completed" => Settled(j)

Working == {"running_expire", "locate", "fetch_data", "fetch_name", "fetch_del_data",
            "fetch_del_name", "pipeline"}
StorePcs == {"store_artifacts", "artname"}

\* How far a worker is, and what its job looks like then.
WorkInv(w) ==
    LET j == worker[w].job IN
    /\ worker[w].pc = "running_hset" => hash[j].status = "queued"
    /\ worker[w].pc \in Working => hash[j].status = "running" /\ Bare(j)
    /\ worker[w].pc \in StorePcs =>
          /\ hash[j].status = "running"
          /\ worker[w].todo \subseteq worker[w].reports
          /\ \A k \in ArtifactKinds :
                /\ Exists(artname[j][k]) => k \in worker[w].reports \ worker[w].todo
                /\ Exists(blob[j][k]) => \/ k \in worker[w].reports \ worker[w].todo
                                         \/ worker[w].pc = "artname" /\ k = worker[w].kind
    /\ worker[w].pc = "artname" => worker[w].kind \in worker[w].todo
    /\ worker[w].pc = "final_expire" => hash[j].status \in Finished
    /\ worker[w].pc = "failed_hset" =>
          hash[j].status = "running" \/ (hash[j].status \in Finished /\ j \in hit)
    /\ worker[w].pc = "failed_expire" => hash[j].status = "failed"

\* What a download has seen is still there.
ReadInv ==
    LET j == reader.job IN
    /\ reader.pc # "idle" => reader.code = 0
    /\ reader.pc \in {"get_report", "get_data", "get_name"}
          => hash[j].status \in Finished /\ Settled(j)
    /\ reader.pc = "get_name" => Exists(blob[j][reader.kind])
    /\ reader.code = 200 =>
          /\ j \in Jobs
          /\ hash[j].status \in Finished
          /\ reader.kind \in hash[j].result /\ reader.named

OneDelivery ==
    /\ OneOwner
    /\ \A j \in Jobs : JobInv(j)
    /\ \A w \in Workers : WorkInv(w)
    /\ ReadInv

\* The inductive invariant: what holds while every message is delivered once.
DeliveryInv == ArtifactInv /\ (redeliveries = 0 => OneDelivery)

(***************************************************************************)
(* A step changes one job: what the others need of it.                     *)
(***************************************************************************)
\* The step leaves job i alone.
Kept(i) ==
    /\ hash'[i].status = hash[i].status /\ hash'[i].result = hash[i].result
    /\ upload'[i] = upload[i] /\ blob'[i] = blob[i] /\ artname'[i] = artname[i]
    /\ queue'[i] = queue[i] /\ api'[i] = api[i]

\* The step takes nothing from a job that is over.
OverKept(j) ==
    hash[j].status \in Finished =>
        /\ hash'[j].status \in Finished /\ hash'[j].result = hash[j].result
        /\ blob'[j] = blob[j] /\ artname'[j] = artname[j]

\* The step gives no worker a job.
NoneTaken == \A v \in Workers : worker'[v].job \in {worker[v].job, NoJob}

\* The job whose status becomes s, and its result r.
Becomes(i, s, r) ==
    \A j \in Jobs :
        /\ hash'[j].status = IF j = i THEN s ELSE hash[j].status
        /\ hash'[j].result = IF j = i THEN r ELSE hash[j].result

LEMMA HSetBecomes ==
    ASSUME hash \in [Jobs -> HashType], NEW i \in Jobs, NEW s \in Unfinished \cup Finished,
           \/ hash' = [hash EXCEPT ![i] = HSet(i, s)]
           \/ hash' = [hash EXCEPT ![i] = [HSet(i, s) EXCEPT !.plan = TRUE]]
    PROVE  Becomes(i, s, hash[i].result)
<1>1. hash[i] \in HashType /\ HSet(i, s) \in HashType
  BY HSetType
<1>2. HSet(i, s).status = s /\ HSet(i, s).result = hash[i].result
  BY <1>1 DEF HSet, HashType
<1>3. /\ [HSet(i, s) EXCEPT !.plan = TRUE].status = s
      /\ [HSet(i, s) EXCEPT !.plan = TRUE].result = hash[i].result
  BY <1>1, <1>2 DEF HashType
<1>4. QED
  BY <1>2, <1>3 DEF Becomes

LEMMA FinalBecomes ==
    ASSUME TypeInv, NEW w \in Workers, FinalHSet(w)
    PROVE  Becomes(worker[w].job, worker[w].verdict, worker[w].reports)
<1> DEFINE j == worker[w].job
           s == worker[w].verdict
           r == worker[w].reports
<1>1. /\ hash \in [Jobs -> HashType] /\ j \in Jobs /\ s \in Finished
      /\ r \in SUBSET Kinds
  BY DEF TypeInv, TypeOK, WorkerSane, WorkerType, FinalHSet, Goto
<1>2. HSet(j, s) \in HashType
  BY <1>1, HSetType
<1>3. HSet(j, s).status = s
  BY <1>1 DEF HSet, HashType
<1>4. [HSet(j, s) EXCEPT !.result = r].status = s /\ [HSet(j, s) EXCEPT !.result = r].result = r
  BY <1>2, <1>3 DEF HashType
<1>5. hash' = [hash EXCEPT ![j] = [HSet(j, s) EXCEPT !.result = r]]
  BY DEF FinalHSet
<1>6. QED
  BY <1>1, <1>4, <1>5 DEF Becomes

LEMMA ExpireKeeps ==
    ASSUME hash \in [Jobs -> HashType], NEW i \in Jobs, Expire(i)
    PROVE  \A j \in Jobs : hash'[j].status = hash[j].status /\ hash'[j].result = hash[j].result
BY DEF Expire, HashType

\* A step that gives no worker a job makes no second owner.
LEMMA OwnersKept ==
    ASSUME TypeInv, OneOwner, NoneTaken
    PROVE  OneOwner' /\ \A i \in Jobs : Free(i) => Free(i)'
BY NoJobAssumption DEF OneOwner, NoneTaken, Free, NoJobAssumption

LEMMA JobKept ==
    ASSUME NEW i \in Jobs, JobInv(i), Kept(i), Free(i) => Free(i)', UNCHANGED source
    PROVE  JobInv(i)'
BY DEF JobInv, Kept, Bare, Settled, Unwritten, Submitting

LEMMA WorkKept ==
    ASSUME NEW w \in Workers, WorkInv(w), worker'[w] = worker[w],
           worker[w].pc # "idle" => Kept(worker[w].job), hit \subseteq hit'
    PROVE  WorkInv(w)'
BY DEF WorkInv, Kept, Bare, Working, StorePcs

LEMMA ReadKept ==
    ASSUME TypeInv, ReadInv, UNCHANGED reader, \A i \in Jobs : OverKept(i)
    PROVE  ReadInv'
<1>1. reader.pc # "idle" => reader.job \in Jobs
  BY DEF TypeInv, ReaderSane
<1>2. QED
  BY <1>1 DEF ReadInv, OverKept, Settled

\* A step on job j keeps the invariant when it keeps the part of j and of the
\* workers that have j.
LEMMA StepOnJob ==
    ASSUME TypeInv, OneDelivery, NEW j \in Jobs,
           \A i \in Jobs \ {j} : Kept(i),
           JobInv(j)', OverKept(j),
           NoneTaken,
           \A v \in Workers : WorkInv(v)' \/ (worker'[v] = worker[v] /\ worker[v].job # j),
           UNCHANGED <<reader, source>>, hit \subseteq hit'
    PROVE  OneDelivery'
<1>1. OneOwner' /\ \A i \in Jobs : Free(i) => Free(i)'
  BY OwnersKept DEF OneDelivery
<1>2. ASSUME NEW i \in Jobs PROVE JobInv(i)'
  BY <1>1, <1>2, JobKept DEF OneDelivery
<1>3. ASSUME NEW v \in Workers PROVE WorkInv(v)'
  <2>1. worker[v].pc # "idle" => worker[v].job \in Jobs
    BY DEF TypeInv, WorkerSane
  <2>2. QED
    BY <1>3, <2>1, WorkKept DEF OneDelivery
<1>4. \A i \in Jobs : OverKept(i)
  BY DEF OverKept, Kept
<1>5. ReadInv'
  BY <1>4, ReadKept DEF OneDelivery
<1>6. QED
  BY <1>1, <1>2, <1>3, <1>5 DEF OneDelivery

(***************************************************************************)
(* The steps of a submission.                                              *)
(***************************************************************************)
\* What they have in common: the job has no worker yet.
LEMMA SubmissionFrame ==
    ASSUME TypeInv, OneDelivery, NEW j \in Jobs,
           \A i \in Jobs \ {j} : Kept(i),
           JobInv(j)', api[j] \in Unwritten \cup Submitting,
           UNCHANGED <<blob, artname, worker, reader, source>>, hit \subseteq hit'
    PROVE  OneDelivery'
<1>1. Free(j) /\ hash[j].status \in {"absent", "queued"}
  BY DEF OneDelivery, JobInv
<1>2. OverKept(j)
  BY <1>1 DEF OverKept
<1>3. /\ NoneTaken
      /\ \A v \in Workers : worker'[v] = worker[v] /\ worker[v].job # j
  BY <1>1 DEF NoneTaken, Free
<1>4. QED
  BY <1>2, <1>3, StepOnJob

LEMMA ReceiveDelivery ==
    ASSUME TypeInv, OneDelivery, NEW j \in Jobs, Receive(j) \/ ReceiveTooLarge(j)
    PROVE  OneDelivery'
<1>1. /\ api[j] = "new" /\ api'[j] \in {"queued_hset", "refused"}
      /\ \A i \in Jobs \ {j} : api'[i] = api[i]
      /\ UNCHANGED <<hash, upload, blob, artname, queue, source, worker, reader, hit>>
  BY DEF Receive, ReceiveTooLarge, TypeInv, TypeOK, store, budget, SubmitSteps
<1>2. \A i \in Jobs \ {j} : Kept(i)
  BY <1>1 DEF Kept
<1>3. JobInv(j)
  BY DEF OneDelivery
<1>4. JobInv(j)'
  BY <1>1, <1>3 DEF JobInv, Bare, Settled, Free, Unwritten, Submitting
<1>5. QED
  BY <1>1, <1>2, <1>4, SubmissionFrame DEF Unwritten

LEMMA SubmitHSetDelivery ==
    ASSUME TypeInv, OneDelivery, NEW j \in Jobs, SubmitHSet(j)
    PROVE  OneDelivery'
<1>1. /\ api[j] = "queued_hset" /\ api'[j] = "queued_expire"
      /\ \A i \in Jobs \ {j} : api'[i] = api[i]
      /\ UNCHANGED <<upload, blob, artname, queue, source, worker, reader, hit>>
  BY DEF SubmitHSet, SubmitTo, TypeInv, TypeOK, budget
<1>2. Becomes(j, "queued", hash[j].result)
  BY HSetBecomes DEF SubmitHSet, TypeInv, TypeOK
<1>3. \A i \in Jobs \ {j} : Kept(i)
  BY <1>1, <1>2 DEF Kept, Becomes
<1>4. JobInv(j)
  BY DEF OneDelivery
<1>5. JobInv(j)'
  BY <1>1, <1>2, <1>4 DEF JobInv, Becomes, Bare, Settled, Free, Unwritten, Submitting
<1>6. QED
  BY <1>1, <1>3, <1>5, SubmissionFrame DEF Unwritten

\* The later commands leave the status as it is.
LEMMA UploadDelivery ==
    ASSUME TypeInv, OneDelivery, NEW j \in Jobs,
           \/ SubmitExpire(j) \/ StoreUploadData(j) \/ StoreUploadName(j) \/ Delay(j)
    PROVE  OneDelivery'
<1>1. /\ hash \in [Jobs -> HashType] /\ api \in [Jobs -> ApiSteps] /\ queue \in [Jobs -> Nat]
      /\ upload \in [Jobs -> [{"data", "name"} -> Keys]] /\ Ttl # 0
      /\ source[j] \in {"ifc", "bim"}
  BY TtlAssumption DEF TypeInv, TypeOK, SubmitSteps, TtlAssumption, ApiSteps
<1>2. /\ api[j] \in Submitting
      /\ \A i \in Jobs \ {j} : api'[i] = api[i]
      /\ UNCHANGED <<blob, artname, source, worker, reader, hit>>
  BY <1>1 DEF SubmitExpire, StoreUploadData, StoreUploadName, Delay, SubmitTo, budget, Submitting
<1>3. \A i \in Jobs : hash'[i].status = hash[i].status /\ hash'[i].result = hash[i].result
  BY <1>1, ExpireKeeps DEF SubmitExpire, StoreUploadData, StoreUploadName, Delay
<1>4. \A i \in Jobs \ {j} : upload'[i] = upload[i] /\ queue'[i] = queue[i]
  BY <1>1 DEF SubmitExpire, StoreUploadData, StoreUploadName, Delay
<1>5. \A i \in Jobs \ {j} : Kept(i)
  BY <1>2, <1>3, <1>4 DEF Kept
<1>6. /\ JobInv(j) /\ Free(j) /\ Free(j)' /\ queue[j] = 0 /\ hash[j].status = "queued"
      /\ Bare(j) /\ hash[j].result = {}
  BY <1>2 DEF OneDelivery, JobInv, Free
<1>7. CASE SubmitExpire(j)
  <2>1. /\ api'[j] = IF source[j] = "ifc" THEN "upload_data" ELSE "delay"
        /\ UNCHANGED <<upload, queue>>
    BY <1>1, <1>7 DEF SubmitExpire, SubmitTo
  <2>2. JobInv(j)'
    BY <1>2, <1>3, <1>6, <2>1 DEF JobInv, Bare, Settled, Unwritten, Submitting
  <2>3. QED
    BY <1>2, <1>5, <2>2, SubmissionFrame
<1>8. CASE StoreUploadData(j)
  <2>1. /\ api'[j] = "upload_name" /\ Exists(upload'[j]["data"]) /\ UNCHANGED queue
    BY <1>1, <1>8 DEF StoreUploadData, SubmitTo
  <2>2. JobInv(j)'
    BY <1>2, <1>3, <1>6, <2>1 DEF JobInv, Bare, Settled, Unwritten, Submitting
  <2>3. QED
    BY <1>2, <1>5, <2>2, SubmissionFrame
<1>9. CASE StoreUploadName(j)
  <2>1. /\ api[j] = "upload_name" /\ api'[j] = "delay" /\ Exists(upload'[j]["name"])
        /\ upload'[j]["data"] = upload[j]["data"] /\ UNCHANGED queue
    BY <1>1, <1>9 DEF StoreUploadName, SubmitTo
  <2>2. JobInv(j)'
    BY <1>2, <1>3, <1>6, <2>1 DEF JobInv, Bare, Settled, Unwritten, Submitting
  <2>3. QED
    BY <1>2, <1>5, <2>2, SubmissionFrame
<1>10. CASE Delay(j)
  <2>1. /\ api[j] = "delay" /\ api'[j] = "accepted" /\ queue'[j] = 1 /\ UNCHANGED upload
    BY <1>1, <1>6, <1>10 DEF Delay, SubmitTo
  <2>2. JobInv(j)'
    BY <1>2, <1>3, <1>6, <2>1 DEF JobInv, Bare, Settled, Unwritten, Submitting
  <2>3. QED
    BY <1>2, <1>5, <2>2, SubmissionFrame
<1>11. QED
  BY <1>7, <1>8, <1>9, <1>10

\* A submission that ends early has published its message, or it never will.
LEMMA SubmitFaultDelivery ==
    ASSUME TypeInv, OneDelivery, NEW j \in Jobs, SubmitFails(j) \/ SubmitCrashes(j)
    PROVE  OneDelivery'
<1>1. /\ api \in [Jobs -> ApiSteps] /\ queue \in [Jobs -> Nat]
  BY DEF TypeInv, TypeOK, SubmitSteps, ApiSteps
<1>2. /\ api[j] \in {"queued_hset"} \cup Submitting /\ api'[j] = "error"
      /\ \A i \in Jobs \ {j} : api'[i] = api[i]
      /\ UNCHANGED <<hash, upload, blob, artname, source, worker, reader>>
      /\ hit \subseteq hit'
  BY <1>1 DEF SubmitFails, SubmitCrashes, SubmitSteps, Submitting, store
<1>3. /\ queue'[j] \in {queue[j], queue[j] + 1}
      /\ queue'[j] = queue[j] + 1 => api[j] = "delay"
      /\ \A i \in Jobs \ {j} : queue'[i] = queue[i]
  BY <1>1 DEF SubmitFails, SubmitCrashes
<1>4. \A i \in Jobs \ {j} : Kept(i)
  BY <1>2, <1>3 DEF Kept
<1>5. JobInv(j) /\ Free(j) /\ Free(j)' /\ queue[j] = 0
  BY <1>2 DEF OneDelivery, JobInv, Free, Unwritten
<1>6. JobInv(j)'
  <2>1. CASE queue'[j] = 0
    BY <1>2, <1>5, <2>1 DEF JobInv, Bare, Settled, Unwritten, Submitting
  <2>2. CASE queue'[j] = 1
    <3>1. api[j] = "delay" /\ hash[j].status = "queued"
      BY <1>3, <1>5, <2>2 DEF JobInv, Submitting
    <3>2. QED
      BY <1>2, <1>5, <2>2, <3>1 DEF JobInv, Bare, Settled, Unwritten, Submitting
  <2>3. QED
    BY <1>3, <1>5, <2>1, <2>2
<1>7. QED
  BY <1>2, <1>4, <1>6, SubmissionFrame DEF Unwritten

(***************************************************************************)
(* The steps of a worker.                                                  *)
(***************************************************************************)
\* A message becomes a task: its job had no worker, and has one now.
LEMMA TakeDelivery ==
    ASSUME TypeInv, OneDelivery, NEW w \in Workers, NEW j \in Jobs, Take(w, j)
    PROVE  OneDelivery'
<1>1. /\ worker \in [Workers -> WorkerType] /\ queue \in [Jobs -> Nat]
      /\ worker[w].pc = "idle" /\ queue[j] > 0 /\ worker[w].job = NoJob
  BY DEF Take, Begin, TypeInv, TypeOK, WorkerSane
<1>2. /\ worker'[w].pc = "running_hset" /\ worker'[w].job = j
      /\ \A v \in Workers \ {w} : worker'[v] = worker[v]
  BY <1>1 DEF Take, Begin, Idle
<1>3. /\ queue'[j] = queue[j] - 1 /\ \A i \in Jobs \ {j} : queue'[i] = queue[i]
      /\ UNCHANGED <<hash, upload, blob, artname, source, api, reader, hit>>
  BY <1>1 DEF Take, Begin, store, budget
<1>4. /\ JobInv(j) /\ Free(j) /\ hash[j].status = "queued" /\ queue[j] = 1
  BY <1>1 DEF OneDelivery, JobInv
<1>5. OneOwner'
  BY <1>2, <1>4, NoJobAssumption DEF OneOwner, Free, OneDelivery, NoJobAssumption
<1>6. \A i \in Jobs \ {j} : Kept(i) /\ (Free(i) => Free(i)')
  BY <1>2, <1>3 DEF Kept, Free
<1>7. ASSUME NEW i \in Jobs PROVE JobInv(i)'
  <2>1. CASE i = j
    BY <1>3, <1>4, <2>1 DEF JobInv, Bare, Settled, Unwritten, Submitting
  <2>2. CASE i # j
    BY <1>3, <1>6, <2>2, JobKept DEF OneDelivery
  <2>3. QED
    BY <2>1, <2>2
<1>8. ASSUME NEW v \in Workers PROVE WorkInv(v)'
  <2>1. CASE v = w
    BY <1>2, <1>3, <1>4, <2>1 DEF WorkInv, Working, StorePcs
  <2>2. CASE v # w
    <3>1. worker[v].pc # "idle" => worker[v].job \in Jobs \ {j}
      BY <1>4 DEF Free, TypeInv, WorkerSane
    <3>2. QED
      BY <1>2, <1>3, <1>6, <2>2, <3>1, WorkKept DEF OneDelivery
  <2>3. QED
    BY <2>1, <2>2
<1>9. ReadInv'
  <2>1. \A i \in Jobs : OverKept(i)
    BY <1>3 DEF OverKept
  <2>2. QED
    BY <1>3, <2>1, ReadKept DEF OneDelivery
<1>10. QED
  BY <1>5, <1>7, <1>8, <1>9 DEF OneDelivery

\* A worker's step concerns the worker and its job, whose request and message
\* are over.
LEMMA StepOfWorker ==
    ASSUME TypeInv, OneDelivery, NEW w \in Workers, worker[w].pc # "idle",
           NEW j, j = worker[w].job,
           \A i \in Jobs \ {j} : Kept(i), OverKept(j),
           hash'[j].status \in {"absent", "queued"} => Bare(j)',
           hash'[j].status \notin Finished => hash'[j].result = {},
           hash'[j].status = "completed" => Settled(j)',
           WorkInv(w)', worker'[w].job \in {j, NoJob},
           \A v \in Workers \ {w} : worker'[v] = worker[v],
           UNCHANGED <<queue, api, source, reader>>, hit \subseteq hit'
    PROVE  OneDelivery'
<1>1. j \in Jobs
  BY DEF TypeInv, WorkerSane
<1>2. JobInv(j) /\ ~Free(j)
  BY <1>1 DEF OneDelivery, Free
<1>3. /\ queue[j] = 0 /\ api[j] \notin Unwritten \cup Submitting
  BY <1>2 DEF JobInv
<1>4. JobInv(j)'
  BY <1>3 DEF JobInv, Submitting
<1>5. \A v \in Workers : WorkInv(v)' \/ (worker'[v] = worker[v] /\ worker[v].job # j)
  BY <1>1 DEF OneDelivery, OneOwner
<1>6. NoneTaken
  BY DEF NoneTaken
<1>7. QED
  BY <1>1, <1>4, <1>5, <1>6, StepOnJob

\* What Goto leaves of a worker.
LEMMA GotoFacts ==
    ASSUME TypeInv, NEW w \in Workers, NEW from, NEW to, Goto(w, from, to)
    PROVE  /\ worker[w].pc = from /\ worker'[w].pc = to
           /\ worker'[w].job = worker[w].job /\ worker'[w].verdict = worker[w].verdict
           /\ worker'[w].reports = worker[w].reports /\ worker'[w].todo = worker[w].todo
           /\ worker'[w].kind = worker[w].kind
           /\ \A v \in Workers \ {w} : worker'[v] = worker[v]
           /\ UNCHANGED <<queue, source, api, reader, hit>>
BY DEF Goto, TypeInv, TypeOK, WorkerType, budget

LEMMA RunDelivery ==
    ASSUME TypeInv, OneDelivery, NEW w \in Workers, RunHSet(w)
    PROVE  OneDelivery'
<1> DEFINE j == worker[w].job
<1>1. Goto(w, "running_hset", "running_expire") /\ UNCHANGED <<upload, blob, artname>>
  BY DEF RunHSet
<1>2. /\ worker[w].pc = "running_hset" /\ worker'[w].pc = "running_expire"
      /\ worker'[w].job = j
      /\ \A v \in Workers \ {w} : worker'[v] = worker[v]
      /\ UNCHANGED <<queue, source, api, reader, hit>>
  BY <1>1, GotoFacts
<1>3. j \in Jobs
  BY <1>2 DEF TypeInv, WorkerSane
<1>4. Becomes(j, "running", hash[j].result)
  BY <1>3, HSetBecomes DEF RunHSet, TypeInv, TypeOK
<1>5. /\ hash[j].status = "queued" /\ Bare(j) /\ hash[j].result = {}
  BY <1>2, <1>3 DEF OneDelivery, WorkInv, JobInv
<1>6. \A i \in Jobs \ {j} : Kept(i)
  BY <1>1, <1>2, <1>4 DEF Kept, Becomes
<1>7. hash'[j].status = "running" /\ hash'[j].result = {}
  BY <1>3, <1>4, <1>5 DEF Becomes
<1>8. WorkInv(w)'
  BY <1>1, <1>2, <1>5, <1>7 DEF WorkInv, Working, StorePcs, Bare
<1>9. OverKept(j)
  BY <1>5 DEF OverKept
<1> HIDE DEF j
<1>10. QED
  BY <1>1, <1>2, <1>6, <1>7, <1>8, <1>9, StepOfWorker DEF j

\* Before the pipeline runs, a worker changes nothing a client can see.
LEMMA WorkingDelivery ==
    ASSUME TypeInv, OneDelivery, NEW w \in Workers,
           \/ RunExpire(w) \/ Locate(w) \/ FetchData(w) \/ FetchName(w) \/ FetchDelete(w)
    PROVE  OneDelivery'
<1> DEFINE j == worker[w].job
<1>1. \E from \in Working, to \in Working \cup {"failed_hset"} : Goto(w, from, to)
  <2>1. CASE RunExpire(w)
    <3>1. Goto(w, "running_expire", "locate")
      BY <2>1 DEF RunExpire
    <3>2. QED
      BY <3>1 DEF Working
  <2>2. CASE Locate(w)
    <3>1. Goto(w, "locate", "pipeline") \/ Goto(w, "locate", "fetch_data")
      BY <2>2 DEF Locate
    <3>2. QED
      BY <3>1 DEF Working
  <2>3. CASE FetchData(w)
    <3>1. Goto(w, "fetch_data", "fetch_name") \/ Goto(w, "fetch_data", "failed_hset")
      BY <2>3 DEF FetchData
    <3>2. QED
      BY <3>1 DEF Working
  <2>4. CASE FetchName(w)
    <3>1. Goto(w, "fetch_name", "fetch_del_data")
      BY <2>4 DEF FetchName
    <3>2. QED
      BY <3>1 DEF Working
  <2>5. CASE FetchDelete(w)
    <3>1. Goto(w, "fetch_del_data", "fetch_del_name") \/ Goto(w, "fetch_del_name", "pipeline")
      BY <2>5 DEF FetchDelete
    <3>2. QED
      BY <3>1 DEF Working
  <2>6. QED
    BY <2>1, <2>2, <2>3, <2>4, <2>5
<1>2. /\ worker[w].pc \in Working /\ worker'[w].pc \in Working \cup {"failed_hset"}
      /\ worker'[w].job = j
      /\ \A v \in Workers \ {w} : worker'[v] = worker[v]
      /\ UNCHANGED <<queue, source, api, reader, hit>>
  BY <1>1, GotoFacts
<1>3. j \in Jobs
  BY <1>2 DEF TypeInv, WorkerSane, Working
<1>4. \A i \in Jobs : hash'[i].status = hash[i].status /\ hash'[i].result = hash[i].result
  BY <1>3, ExpireKeeps
     DEF RunExpire, Locate, FetchData, FetchName, FetchDelete, TypeInv, TypeOK, store
<1>5. UNCHANGED <<blob, artname>> /\ \A i \in Jobs \ {j} : upload'[i] = upload[i]
  BY DEF RunExpire, Locate, FetchData, FetchName, FetchDelete, TypeInv, TypeOK, store
<1>6. /\ hash[j].status = "running" /\ Bare(j) /\ hash[j].result = {}
  BY <1>2, <1>3 DEF OneDelivery, WorkInv, JobInv
<1>7. \A i \in Jobs \ {j} : Kept(i)
  BY <1>2, <1>4, <1>5 DEF Kept
<1>8. hash'[j].status = "running" /\ hash'[j].result = {}
  BY <1>3, <1>4, <1>6
<1>9. WorkInv(w)'
  BY <1>2, <1>5, <1>6, <1>8 DEF WorkInv, Working, StorePcs, Bare
<1>10. OverKept(j)
  BY <1>6 DEF OverKept
<1>11. worker[w].pc # "idle"
  BY <1>2 DEF Working
<1> HIDE DEF j
<1>12. QED
  BY <1>2, <1>7, <1>8, <1>9, <1>10, <1>11, StepOfWorker DEF j

\* The pipeline has run: the reports are to be stored, and nothing is yet.
LEMMA PipelineDelivery ==
    ASSUME TypeInv, OneDelivery, NEW w \in Workers, Pipeline(w)
    PROVE  OneDelivery'
<1> DEFINE j == worker[w].job
<1>1. /\ worker[w].pc = "pipeline" /\ worker \in [Workers -> WorkerType]
      /\ UNCHANGED <<hash, upload, blob, artname, queue, source, api, reader, hit>>
  BY DEF Pipeline, TypeInv, TypeOK, store, budget
<1>2. j \in Jobs
  BY <1>1 DEF TypeInv, WorkerSane
<1>3. /\ \A v \in Workers \ {w} : worker'[v] = worker[v]
      /\ worker'[w].job = j
      /\ \/ worker'[w].pc = "failed_hset"
         \/ /\ worker'[w].pc = "store_artifacts"
            /\ worker'[w].todo = worker'[w].reports \cap ArtifactKinds
  BY <1>1 DEF Pipeline, WorkerType
<1>4. /\ hash[j].status = "running" /\ Bare(j) /\ hash[j].result = {}
  BY <1>1, <1>2 DEF OneDelivery, WorkInv, JobInv, Working
<1>5. WorkInv(w)'
  BY <1>1, <1>3, <1>4 DEF WorkInv, Working, StorePcs, Bare
<1>6. OverKept(j) /\ \A i \in Jobs \ {j} : Kept(i)
  BY <1>1, <1>4 DEF OverKept, Kept
<1> HIDE DEF j
<1>7. QED
  BY <1>1, <1>3, <1>4, <1>5, <1>6, StepOfWorker DEF j

LEMMA StoreBlobDelivery ==
    ASSUME TypeInv, OneDelivery, NEW w \in Workers, NEW k \in ArtifactKinds, StoreBlob(w, k)
    PROVE  OneDelivery'
<1> DEFINE j == worker[w].job
<1>1. /\ worker[w].pc = "store_artifacts" /\ k \in worker[w].todo
      /\ worker \in [Workers -> WorkerType] /\ blob \in [Jobs -> [ArtifactKinds -> Keys]]
      /\ blob' = [blob EXCEPT ![j][k] = Ttl]
      /\ UNCHANGED <<hash, upload, artname, queue, source, api, reader, hit>>
  BY DEF StoreBlob, SetBlob, TypeInv, TypeOK, budget
<1>2. j \in Jobs
  BY <1>1 DEF TypeInv, WorkerSane
<1>3. /\ \A v \in Workers \ {w} : worker'[v] = worker[v]
      /\ worker'[w].job = j /\ worker'[w].pc = "artname" /\ worker'[w].kind = k
      /\ worker'[w].reports = worker[w].reports /\ worker'[w].todo = worker[w].todo
  BY <1>1 DEF StoreBlob, SetBlob, NameNext, Storing
<1>4. /\ hash[j].status = "running" /\ hash[j].result = {}
      /\ worker[w].todo \subseteq worker[w].reports
      /\ \A i \in ArtifactKinds :
            Exists(artname[j][i]) \/ Exists(blob[j][i]) => i \in worker[w].reports \ worker[w].todo
  BY <1>1, <1>2 DEF OneDelivery, WorkInv, JobInv, StorePcs
<1>5. /\ \A i \in ArtifactKinds \ {k} : blob'[j][i] = blob[j][i]
      /\ \A i \in Jobs \ {j} : blob'[i] = blob[i]
  BY <1>1, <1>2
<1>6. WorkInv(w)'
  BY <1>1, <1>3, <1>4, <1>5 DEF WorkInv, Working, StorePcs
<1>7. OverKept(j) /\ \A i \in Jobs \ {j} : Kept(i)
  BY <1>1, <1>4, <1>5 DEF OverKept, Kept
<1> HIDE DEF j
<1>8. QED
  BY <1>1, <1>3, <1>4, <1>6, <1>7, StepOfWorker DEF j

LEMMA StoreNameDelivery ==
    ASSUME TypeInv, OneDelivery, NEW w \in Workers, StoreName(w)
    PROVE  OneDelivery'
<1> DEFINE j == worker[w].job
           k == worker[w].kind
<1>1. /\ worker[w].pc = "artname"
      /\ worker \in [Workers -> WorkerType] /\ artname \in [Jobs -> [ArtifactKinds -> Keys]]
      /\ artname' = [artname EXCEPT ![j][k] = Ttl]
      /\ UNCHANGED <<hash, upload, blob, queue, source, api, reader, hit>>
  BY DEF StoreName, TypeInv, TypeOK, budget
<1>2. j \in Jobs /\ k \in ArtifactKinds
  BY <1>1 DEF TypeInv, WorkerSane
<1>3. /\ \A v \in Workers \ {w} : worker'[v] = worker[v]
      /\ worker'[w].job = j /\ worker'[w].pc = "store_artifacts"
      /\ worker'[w].reports = worker[w].reports /\ worker'[w].todo = worker[w].todo \ {k}
  BY <1>1 DEF StoreName, Storing
<1>4. /\ hash[j].status = "running" /\ hash[j].result = {}
      /\ worker[w].todo \subseteq worker[w].reports /\ k \in worker[w].todo
      /\ \A i \in ArtifactKinds :
            /\ Exists(artname[j][i]) => i \in worker[w].reports \ worker[w].todo
            /\ Exists(blob[j][i]) => i \in worker[w].reports \ worker[w].todo \/ i = k
  BY <1>1, <1>2 DEF OneDelivery, WorkInv, JobInv, StorePcs
<1>5. /\ \A i \in ArtifactKinds \ {k} : artname'[j][i] = artname[j][i]
      /\ \A i \in Jobs \ {j} : artname'[i] = artname[i]
  BY <1>1, <1>2
<1>6. WorkInv(w)'
  BY <1>1, <1>3, <1>4, <1>5 DEF WorkInv, Working, StorePcs
<1>7. OverKept(j) /\ \A i \in Jobs \ {j} : Kept(i)
  BY <1>1, <1>4, <1>5 DEF OverKept, Kept
<1> HIDE DEF j
<1>8. QED
  BY <1>1, <1>3, <1>4, <1>6, <1>7, StepOfWorker DEF j

\* The result is announced: the reports it lists are the ones stored.
LEMMA FinalDelivery ==
    ASSUME TypeInv, StoredSoFar, OneDelivery, NEW w \in Workers, FinalHSet(w)
    PROVE  /\ OneDelivery'
           /\ hash[worker[w].job].status = "running"
           /\ worker[w].reports \cap ArtifactKinds = Stored(worker[w].job)
<1> PICK j : j = worker[w].job
  OBVIOUS
<1>1. /\ Goto(w, "store_artifacts", "final_expire") /\ worker[w].todo = {}
      /\ UNCHANGED <<upload, blob, artname>>
  BY DEF FinalHSet
<1>2. /\ worker[w].pc = "store_artifacts" /\ worker'[w].pc = "final_expire"
      /\ worker'[w].job = j
      /\ \A v \in Workers \ {w} : worker'[v] = worker[v]
      /\ UNCHANGED <<queue, source, api, reader, hit>>
  BY <1>1, GotoFacts
<1>3. j \in Jobs /\ worker[w].verdict \in Finished
  BY <1>2 DEF TypeInv, WorkerSane
<1>4. Becomes(j, worker[w].verdict, worker[w].reports)
  BY FinalBecomes
<1>5. /\ hash[j].status = "running"
      /\ \A i \in ArtifactKinds :
            Exists(artname[j][i]) \/ Exists(blob[j][i]) => i \in worker[w].reports
  BY <1>1, <1>2 DEF OneDelivery, WorkInv, StorePcs
<1>6. worker[w].reports \cap ArtifactKinds \subseteq Stored(j)
  BY <1>1, <1>2 DEF StoredSoFar
<1>7. worker[w].reports \cap ArtifactKinds = Stored(j)
  BY <1>5, <1>6 DEF Stored
<1>8. /\ hash'[j].status \in Finished /\ hash'[j].result = worker[w].reports
  BY <1>3, <1>4 DEF Becomes
<1>9. Settled(j)'
  BY <1>1, <1>5, <1>6, <1>8 DEF Settled, Stored
<1>10. WorkInv(w)'
  BY <1>2, <1>8 DEF WorkInv, Working, StorePcs
<1>11. OverKept(j) /\ \A i \in Jobs \ {j} : Kept(i)
  BY <1>1, <1>2, <1>4, <1>5 DEF OverKept, Kept, Becomes
<1>12. OneDelivery'
  BY <1>2, <1>8, <1>9, <1>10, <1>11, StepOfWorker
<1>13. QED
  BY <1>5, <1>7, <1>12

\* A failure is recorded: of a running job, or of one that a fault has hit.
LEMMA FailedDelivery ==
    ASSUME TypeInv, OneDelivery, NEW w \in Workers, FailedHSet(w)
    PROVE  OneDelivery'
<1> DEFINE j == worker[w].job
<1>1. Goto(w, "failed_hset", "failed_expire") /\ UNCHANGED <<upload, blob, artname>>
  BY DEF FailedHSet
<1>2. /\ worker[w].pc = "failed_hset" /\ worker'[w].pc = "failed_expire"
      /\ worker'[w].job = j
      /\ \A v \in Workers \ {w} : worker'[v] = worker[v]
      /\ UNCHANGED <<queue, source, api, reader, hit>>
  BY <1>1, GotoFacts
<1>3. j \in Jobs
  BY <1>2 DEF TypeInv, WorkerSane
<1>4. Becomes(j, "failed", hash[j].result)
  BY <1>3, HSetBecomes DEF FailedHSet, TypeInv, TypeOK
<1>5. hash'[j].status = "failed" /\ hash'[j].result = hash[j].result
  BY <1>3, <1>4 DEF Becomes
<1>6. WorkInv(w)'
  BY <1>2, <1>5 DEF WorkInv, Working, StorePcs
<1>7. OverKept(j) /\ \A i \in Jobs \ {j} : Kept(i)
  BY <1>1, <1>2, <1>4, <1>5 DEF OverKept, Kept, Becomes
<1> HIDE DEF j
<1>8. QED
  BY <1>2, <1>5, <1>6, <1>7, StepOfWorker DEF j

\* A task ends, in one way or another, and leaves its job as it is.
LEMMA EndDelivery ==
    ASSUME TypeInv, OneDelivery, NEW w \in Workers, worker[w].pc # "idle",
           LastExpire(w) \/ WorkerFails(w) \/ WorkerCrashes(w)
    PROVE  OneDelivery'
<1> PICK j : j = worker[w].job
  OBVIOUS
<1>1. worker \in [Workers -> WorkerType] /\ worker[w] \in WorkerType /\ j \in Jobs
  BY DEF TypeInv, TypeOK, WorkerSane
<1>2. /\ \A v \in Workers \ {w} : worker'[v] = worker[v]
      /\ UNCHANGED <<upload, blob, artname, queue, source, api, reader>>
      /\ hit' \in {hit, hit \cup {j}}
  BY <1>1 DEF LastExpire, WorkerFails, WorkerCrashes, store, budget
<1>3. \A i \in Jobs : hash'[i].status = hash[i].status /\ hash'[i].result = hash[i].result
  BY <1>1, ExpireKeeps DEF LastExpire, WorkerFails, WorkerCrashes, TypeInv, TypeOK, store
<1>4. \/ worker'[w] = Idle
      \/ /\ worker[w].pc \in TrySteps /\ worker'[w].pc = "failed_hset"
         /\ worker'[w].job = j /\ j \in hit'
  BY <1>1 DEF LastExpire, WorkerFails, WorkerCrashes, WorkerType
<1>5. JobInv(j) /\ WorkInv(w)
  BY <1>1 DEF OneDelivery
<1>6. WorkInv(w)'
  <2>1. CASE worker'[w] = Idle
    BY <2>1 DEF WorkInv, Idle, Working, StorePcs
  <2>2. CASE /\ worker[w].pc \in TrySteps /\ worker'[w].pc = "failed_hset"
             /\ worker'[w].job = j /\ j \in hit'
    <3>1. hash[j].status = "running" \/ hash[j].status \in Finished
      BY <1>5, <2>2 DEF WorkInv, Working, StorePcs, TrySteps
    <3>2. hash'[j].status = "running" \/ hash'[j].status \in Finished
      BY <1>1, <1>3, <3>1
    <3>3. QED
      BY <2>2, <3>2 DEF WorkInv, Working, StorePcs
  <2>3. QED
    BY <1>4, <2>1, <2>2
<1>7. OverKept(j) /\ \A i \in Jobs \ {j} : Kept(i)
  BY <1>1, <1>2, <1>3 DEF OverKept, Kept
<1>8. /\ hash'[j].status \in {"absent", "queued"} => Bare(j)'
      /\ hash'[j].status \notin Finished => hash'[j].result = {}
      /\ hash'[j].status = "completed" => Settled(j)'
  BY <1>1, <1>2, <1>3, <1>5 DEF JobInv, Bare, Settled
<1>9. worker'[w].job \in {j, NoJob}
  BY <1>4 DEF Idle
<1>10. QED
  BY <1>2, <1>6, <1>7, <1>8, <1>9, StepOfWorker

(***************************************************************************)
(* The steps of a download, and all steps together.                        *)
(***************************************************************************)
\* A download goes on, with what it has seen, or is answered.
LEMMA ContinueRead ==
    ASSUME TypeInv, OneDelivery, NEW pc \in ReadSteps, reader.pc # "idle", Continue(pc),
           UNCHANGED <<hash, blob, artname>>,
           pc \in {"get_report", "get_data", "get_name"}
              => hash[reader.job].status \in Finished /\ Settled(reader.job),
           pc = "get_name" => Exists(blob[reader.job][reader.kind])
    PROVE  ReadInv'
<1>1. /\ reader'.pc = pc /\ reader'.job = reader.job /\ reader'.kind = reader.kind
      /\ reader'.code = reader.code /\ reader.code = 0
  BY DEF Continue, TypeInv, TypeOK, ReaderType, OneDelivery, ReadInv
<1>2. QED
  BY <1>1 DEF ReadInv, Settled

LEMMA RefusedRead ==
    ASSUME NEW code \in {404, 409, 500}, Answer(code)
    PROVE  ReadInv'
BY DEF Answer, Respond, ReadInv

LEMMA ServedRead ==
    ASSUME Respond(200, Exists(artname[reader.job][reader.kind])),
           UNCHANGED <<hash, blob, artname>>,
           reader.job \in Jobs, hash[reader.job].status \in Finished,
           reader.kind \in hash[reader.job].result, Exists(artname[reader.job][reader.kind])
    PROVE  ReadInv'
BY DEF Respond, ReadInv

LEMMA ReadDelivery ==
    ASSUME TypeInv, OneDelivery, Download
    PROVE  OneDelivery'
<1>1. /\ UNCHANGED <<hash, upload, blob, artname, queue, source, api, worker, hit>>
  BY DEF Download, Request, ReadJob, ReadAgain, ReadData, ReadName, ReadFails, ReadOnly, store, budget
<1>2. reader.pc # "idle" => reader.job \in Jobs /\ reader.kind \in ArtifactKinds
  BY DEF TypeInv, ReaderSane
<1>3. ASSUME reader.pc # "idle", hash[reader.job].status = "completed"
      PROVE  Settled(reader.job)
  BY <1>2, <1>3 DEF OneDelivery, JobInv
<1>4. ReadInv'
  <2>1. ASSUME NEW j \in Jobs, NEW k \in Kinds, Request(j, k)
        PROVE  ReadInv'
    BY <2>1 DEF Request, ReadInv
  <2>2. CASE ReadJob
    <3>1. reader.pc = "get_job"
      BY <2>2 DEF ReadJob
    <3>2. CASE View(reader.job).status = "completed"
      <4>1. Continue("get_report")
        BY <2>2, <3>2, Zenon DEF ReadJob
      <4>2. QED
        BY <1>1, <1>3, <3>1, <3>2, <4>1, ContinueRead DEF View, ReadSteps
    <3>3. CASE View(reader.job).status # "completed"
      <4>1. Answer(404) \/ Answer(409)
        <5>1. CASE View(reader.job).status = "absent"
          BY <2>2, <5>1, Zenon DEF ReadJob
        <5>2. CASE View(reader.job).status # "absent"
          BY <2>2, <3>3, <5>2, Zenon DEF ReadJob
        <5>3. QED
          BY <5>1, <5>2
      <4>2. QED
        BY <4>1, RefusedRead
    <3>4. QED
      BY <3>2, <3>3
  <2>3. CASE ReadAgain
    <3>1. reader.pc = "get_report"
      BY <2>3 DEF ReadAgain
    <3>2. CASE View(reader.job).status = "completed"
      <4>1. Continue("get_data")
        BY <2>3, <3>2 DEF ReadAgain
      <4>2. QED
        BY <1>1, <1>3, <3>1, <3>2, <4>1, ContinueRead DEF View, ReadSteps
    <3>3. CASE View(reader.job).status # "completed"
      BY <2>3, <3>3, RefusedRead DEF ReadAgain
    <3>4. QED
      BY <3>2, <3>3
  <2>4. CASE ReadData
    <3>1. reader.pc = "get_data"
      BY <2>4 DEF ReadData
    <3>2. hash[reader.job].status \in Finished /\ Settled(reader.job)
      BY <3>1 DEF OneDelivery, ReadInv
    <3>3. CASE Exists(blob[reader.job][reader.kind])
      <4>1. Continue("get_name")
        BY <2>4, <3>3 DEF ReadData
      <4>2. QED
        BY <1>1, <3>1, <3>2, <3>3, <4>1, ContinueRead DEF ReadSteps
    <3>4. CASE ~Exists(blob[reader.job][reader.kind])
      BY <2>4, <3>4, RefusedRead DEF ReadData
    <3>5. QED
      BY <3>3, <3>4
  <2>5. CASE ReadName
    <3>1. reader.pc = "get_name" /\ Respond(200, Exists(artname[reader.job][reader.kind]))
      BY <2>5 DEF ReadName
    <3>2. /\ hash[reader.job].status \in Finished /\ Settled(reader.job)
          /\ Exists(blob[reader.job][reader.kind])
      BY <3>1 DEF OneDelivery, ReadInv
    <3>3. /\ Exists(artname[reader.job][reader.kind])
          /\ reader.kind \in hash[reader.job].result
      BY <1>2, <3>1, <3>2 DEF Settled
    <3>4. QED
      BY <1>1, <1>2, <3>1, <3>2, <3>3, ServedRead
  <2>6. CASE ReadFails
    BY <2>6, RefusedRead DEF ReadFails
  <2>7. QED
    BY <2>1, <2>2, <2>3, <2>4, <2>5, <2>6 DEF Download
<1>5. \A j \in Jobs : JobInv(j)'
  BY <1>1 DEF OneDelivery, JobInv, Free, Bare, Settled
<1>6. OneOwner' /\ \A w \in Workers : WorkInv(w)'
  BY <1>1 DEF OneDelivery, OneOwner, WorkInv, Bare
<1>7. QED
  BY <1>4, <1>5, <1>6 DEF OneDelivery

\* No step that redelivers nothing breaks the invariant.
LEMMA NextDelivery ==
    ASSUME TypeInv, StoredSoFar, OneDelivery, [Next]_vars, ~TtlPasses,
           redeliveries' = 0
    PROVE  OneDelivery'
<1>1. ASSUME NEW j \in Jobs,
             \/ Receive(j) \/ ReceiveTooLarge(j)
             \/ SubmitStep(j) \/ SubmitFails(j) \/ SubmitCrashes(j)
      PROVE  OneDelivery'
  BY <1>1, ReceiveDelivery, SubmitHSetDelivery, UploadDelivery, SubmitFaultDelivery DEF SubmitStep
<1>2. ASSUME NEW j \in Jobs, Redeliver(j)
      PROVE  FALSE
  BY <1>2 DEF Redeliver, TypeInv, TypeOK
<1>3. ASSUME NEW j \in Jobs, NEW w \in Workers, Take(w, j)
      PROVE  OneDelivery'
  BY <1>3, TakeDelivery
<1>4. ASSUME NEW w \in Workers, WorkerStep(w) \/ WorkerFails(w) \/ WorkerCrashes(w)
      PROVE  OneDelivery'
  <2>1. worker[w].pc # "idle"
    BY <1>4, StepsAtWork
  <2>2. CASE LastExpire(w) \/ WorkerFails(w) \/ WorkerCrashes(w)
    BY <2>1, <2>2, EndDelivery
  <2>3. CASE RunHSet(w)
    BY <2>3, RunDelivery
  <2>4. CASE RunExpire(w) \/ Locate(w) \/ FetchData(w) \/ FetchName(w) \/ FetchDelete(w)
    BY <2>4, WorkingDelivery
  <2>5. CASE Pipeline(w)
    BY <2>5, PipelineDelivery
  <2>6. CASE \E k \in ArtifactKinds : StoreBlob(w, k)
    BY <2>6, StoreBlobDelivery
  <2>7. CASE StoreName(w)
    BY <2>7, StoreNameDelivery
  <2>8. CASE FinalHSet(w)
    BY <2>8, FinalDelivery
  <2>9. CASE FailedHSet(w)
    BY <2>9, FailedDelivery
  <2>10. QED
    BY <1>4, <2>2, <2>3, <2>4, <2>5, <2>6, <2>7, <2>8, <2>9 DEF WorkerStep
<1>5. CASE Download
  BY <1>5, ReadDelivery
<1>6. CASE UNCHANGED vars
  BY <1>6
     DEF vars, store, budget, OneDelivery, OneOwner, JobInv, Free, Bare, Settled, WorkInv, ReadInv
<1>7. QED
  BY <1>1, <1>2, <1>3, <1>4, <1>5, <1>6 DEF Next, Tick

LEMMA InitDelivery == Init => OneDelivery
<1> SUFFICES ASSUME Init
             PROVE  OneDelivery
  OBVIOUS
<1>1. OneOwner
  BY NoJobAssumption DEF Init, OneOwner, Idle, NoJobAssumption
<1>2. ASSUME NEW j \in Jobs PROVE JobInv(j)
  BY <1>2, NoJobAssumption
     DEF Init, JobInv, Free, Bare, Settled, Idle, NoHash, Unwritten, Submitting, NoJobAssumption
<1>3. ASSUME NEW w \in Workers PROVE WorkInv(w)
  BY <1>3 DEF Init, WorkInv, Idle, Working, StorePcs
<1>4. ReadInv
  BY DEF Init, ReadInv, NoRequest
<1>5. QED
  BY <1>1, <1>2, <1>3, <1>4 DEF OneDelivery

\* The invariant is inductive: a redelivery, once it has happened, is never
\* taken back.
LEMMA DeliveryStep ==
    ASSUME DeliveryInv, [Next]_vars, ~TtlPasses
    PROVE  DeliveryInv'
<1>1. ArtifactInv'
  BY ArtifactStep DEF DeliveryInv
<1>2. redeliveries' = 0 => redeliveries = 0
  <2>1. redeliveries \in Nat
    BY BoundsAssumption DEF DeliveryInv, ArtifactInv, TypeInv, TypeOK, BoundsAssumption
  <2>2. redeliveries' \in {redeliveries, redeliveries + 1}
    BY DEF Next, vars, Receive, ReceiveTooLarge, SubmitStep, SubmitTo, SubmitHSet, SubmitExpire,
           StoreUploadData, StoreUploadName, Delay, SubmitFails, SubmitCrashes, Redeliver, Take,
           Begin, WorkerStep, WorkerFails, WorkerCrashes, RunHSet, RunExpire, Locate, FetchData,
           FetchName, FetchDelete, Pipeline, StoreBlob, SetBlob, StoreName, FinalHSet, FailedHSet,
           LastExpire, Goto, Download, Request, ReadJob, ReadAgain, ReadData, ReadName, ReadFails,
           ReadOnly, Tick, budget
  <2>3. QED
    BY <2>1, <2>2
<1>3. redeliveries' = 0 => OneDelivery'
  BY <1>2, NextDelivery DEF DeliveryInv, ArtifactInv
<1>4. QED
  BY <1>1, <1>3 DEF DeliveryInv

LEMMA DeliveryInvariant == ~TtlPasses => (Spec => []DeliveryInv)
<1> SUFFICES ASSUME ~TtlPasses
             PROVE  Spec => []DeliveryInv
  OBVIOUS
<1>1. Init => DeliveryInv
  BY InitType, InitDelivery
     DEF DeliveryInv, Init, ArtifactInv, StoredSoFar, CompletedHasArtifacts, Idle, NoHash
<1>2. DeliveryInv /\ [Next]_vars => DeliveryInv'
  BY DeliveryStep
<1>3. QED
  BY <1>1, <1>2, PTL DEF Spec

\* No message waits without the upload its task needs, for any number of jobs,
\* workers, failing commands and crashes, as long as no TTL runs out: the upload
\* is stored before the publication, and only a task of the same job removes it.
THEOREM UploadIsThere == ~TtlPasses => (Spec => []UploadAwaitsWorker)
<1> SUFFICES ASSUME ~TtlPasses
             PROVE  Spec => []UploadAwaitsWorker
  OBVIOUS
<1>1. DeliveryInv => UploadAwaitsWorker
  BY DEF DeliveryInv, OneDelivery, JobInv, UploadAwaitsWorker
<1>2. QED
  BY <1>1, DeliveryInvariant, PTL

\* A report that is served is one the result lists, under its name, whatever
\* fails or dies between the four commands of a download and next to them.
THEOREM ServedWasPublished == ~TtlPasses => (Spec => []ServedReportWasPublished)
<1> SUFFICES ASSUME ~TtlPasses
             PROVE  Spec => []ServedReportWasPublished
  OBVIOUS
<1>1. DeliveryInv => ServedReportWasPublished
  BY DEF DeliveryInv, OneDelivery, ReadInv, ServedReportWasPublished
<1>2. QED
  BY <1>1, DeliveryInvariant, PTL

(***************************************************************************)
(* The job service implements JobLifecycle: each command that writes a     *)
(* status is one step of the life of its job, each fault is a fault, and   *)
(* every other command is invisible to a client.                           *)
(***************************************************************************)
\* A client sees no change of job i.
Unseen(i) ==
    /\ hash'[i].status = hash[i].status /\ hash'[i].result = hash[i].result
    /\ hash[i].status = "completed" => Stored(i)' = Stored(i)

\* A client sees the status of j become s, and nothing else.
Seen(j, s) ==
    /\ \A i \in Jobs \ {j} : Unseen(i)
    /\ hash'[j].status = s
    /\ UNCHANGED hit

\* The values that stand for the variables of JobLifecycle.
Status == [i \in Jobs |-> View(i).status]
Listed == [i \in Jobs |-> View(i).result \cap ArtifactKinds]
Published == [i \in Jobs |-> IF View(i).status = "completed" THEN Stored(i) ELSE {}]

LEMMA InvisibleStep ==
    ASSUME \A i \in Jobs : Unseen(i)
    PROVE  UNCHANGED <<Status, Listed, Published>>
<1>1. \A i \in Jobs : View(i)' = View(i)
  BY DEF Unseen, View
<1>2. \A i \in Jobs : View(i).status = "completed" => Stored(i)' = Stored(i)
  BY DEF Unseen, View
<1>3. Status' = Status /\ Listed' = Listed
  BY <1>1 DEF Status, Listed
<1>4. Published' = Published
  BY <1>1, <1>2 DEF Published
<1>5. QED
  BY <1>3, <1>4

LEMMA VisibleStep ==
    ASSUME NEW j \in Jobs, NEW s, Seen(j, s)
    PROVE  /\ Status' = [Status EXCEPT ![j] = s]
           /\ Listed' = [Listed EXCEPT ![j] =
                            IF s = "completed" THEN hash'[j].result \cap ArtifactKinds ELSE {}]
           /\ Published' = [Published EXCEPT ![j] = IF s = "completed" THEN Stored(j)' ELSE {}]
<1>1. \A i \in Jobs : View(i)'.status = IF i = j THEN s ELSE View(i).status
  BY DEF Seen, Unseen, View
<1>2. \A i \in Jobs : View(i)'.result =
          IF i = j THEN (IF s = "completed" THEN hash'[j].result ELSE {}) ELSE View(i).result
  BY DEF Seen, Unseen, View
<1>3. \A i \in Jobs : (IF View(i).status = "completed" THEN Stored(i) ELSE {})' =
          IF i = j THEN (IF s = "completed" THEN Stored(j)' ELSE {})
          ELSE IF View(i).status = "completed" THEN Stored(i) ELSE {}
  BY DEF Seen, Unseen, View, Stored
<1>4. Status' = [Status EXCEPT ![j] = s]
  BY <1>1 DEF Status
<1>5. Listed' = [Listed EXCEPT ![j] =
                    IF s = "completed" THEN hash'[j].result \cap ArtifactKinds ELSE {}]
  BY <1>2 DEF Listed
<1>6. Published' = [Published EXCEPT ![j] = IF s = "completed" THEN Stored(j)' ELSE {}]
  BY <1>3 DEF Published
<1>7. QED
  BY <1>4, <1>5, <1>6

\* A status that is not completed lists nothing, and nothing of it is published.
LEMMA NothingListed ==
    ASSUME NEW j \in Jobs, hash[j].status # "completed"
    PROVE  /\ Status[j] = hash[j].status
           /\ Listed = [Listed EXCEPT ![j] = {}]
           /\ Published = [Published EXCEPT ![j] = {}]
BY DEF View, Status, Listed, Published

\* Queued, running or failed: the status changes, and no report is seen.
LEMMA PlainStep ==
    ASSUME NEW j \in Jobs, NEW s \in {"queued", "running", "failed"}, Seen(j, s),
           hash[j].status # "completed"
    PROVE  Status' = [Status EXCEPT ![j] = s] /\ UNCHANGED <<Listed, Published, hit>>
<1>1. UNCHANGED hit
  BY DEF Seen
<1>2. QED
  BY <1>1, VisibleStep, NothingListed

LEMMA SubmitSeen ==
    ASSUME NEW j \in Jobs, Seen(j, "queued"), hash[j].status = "absent"
    PROVE  Lifecycle!Submit(j)
<1>1. Status[j] = "absent"
  BY DEF Status, View
<1>2. QED
  BY <1>1, PlainStep DEF Lifecycle!Submit, Status, Listed, Published

LEMMA StartSeen ==
    ASSUME NEW j \in Jobs, Seen(j, "running"), hash[j].status = "queued"
    PROVE  Lifecycle!Start(j)
<1>1. Status[j] = "queued"
  BY DEF Status, View
<1>2. QED
  BY <1>1, PlainStep DEF Lifecycle!Start, Status, Listed, Published

LEMMA FailSeen ==
    ASSUME NEW j \in Jobs, Seen(j, "failed"), hash[j].status = "running"
    PROVE  Lifecycle!Fail(j)
<1>1. Status[j] = "running"
  BY DEF Status, View
<1>2. QED
  BY <1>1, PlainStep DEF Lifecycle!Fail, Status, Listed, Published

\* The reports that the status announces are the ones that can be downloaded.
LEMMA CompleteSeen ==
    ASSUME NEW j \in Jobs, Seen(j, "completed"), hash[j].status = "running",
           hash'[j].result \cap ArtifactKinds = Stored(j)'
    PROVE  Lifecycle!Complete(j)
<1>1. Status[j] = "running" /\ UNCHANGED hit
  BY DEF Status, View, Seen
<1>2. PICK reports \in SUBSET ArtifactKinds : reports = Stored(j)'
  BY DEF Stored
<1>3. /\ Status' = [Status EXCEPT ![j] = "completed"]
      /\ Listed' = [Listed EXCEPT ![j] = reports]
      /\ Published' = [Published EXCEPT ![j] = reports]
  BY <1>2, VisibleStep
<1>4. QED
  BY <1>1, <1>3 DEF Lifecycle!Complete, Status, Listed, Published

LEMMA RetractSeen ==
    ASSUME NEW j \in Jobs, Seen(j, "failed"), hash[j].status = "completed", j \in hit
    PROVE  Lifecycle!Retract(j)
<1>1. Status[j] = "completed" /\ UNCHANGED hit
  BY DEF Status, View, Seen
<1>2. /\ Status' = [Status EXCEPT ![j] = "failed"]
      /\ Listed' = [Listed EXCEPT ![j] = {}]
      /\ Published' = [Published EXCEPT ![j] = {}]
  BY VisibleStep
<1>3. QED
  BY <1>1, <1>2 DEF Lifecycle!Retract, Status, Listed, Published

\* A fault touches one job and takes nothing from a client.
LEMMA FaultSeen ==
    ASSUME NEW j \in Jobs, \A i \in Jobs : Unseen(i), hit' = hit \cup {j}
    PROVE  Lifecycle!Next
<1>1. /\ Status' = [i \in Jobs |-> IF i \in {} THEN "absent" ELSE Status[i]]
      /\ Listed' = [i \in Jobs |-> IF i \in {} THEN {} ELSE Listed[i]]
      /\ Published' = [i \in Jobs |-> IF i \in {} THEN {} ELSE Published[i]]
  BY InvisibleStep DEF Status, Listed, Published
<1>2. Lifecycle!Fault({j}, {})
  BY <1>1 DEF Lifecycle!Fault, Status, Listed, Published
<1>3. {j} \in SUBSET Jobs /\ {} \in SUBSET {j}
  OBVIOUS
<1>4. QED
  BY <1>2, <1>3 DEF Lifecycle!Next

\* A step that writes no status and no report is invisible.
LEMMA SilentStep ==
    ASSUME \A i \in Jobs : hash'[i].status = hash[i].status /\ hash'[i].result = hash[i].result,
           UNCHANGED <<blob, artname>>
    PROVE  \A i \in Jobs : Unseen(i)
BY DEF Unseen, Stored

\* A step that makes the status of j become s, and stores no report.
LEMMA StatusStep ==
    ASSUME NEW j \in Jobs, NEW s, NEW r, Becomes(j, s, r), UNCHANGED <<blob, artname, hit>>
    PROVE  Seen(j, s) /\ hash'[j].result = r
BY DEF Becomes, Seen, Unseen, Stored

LEMMA InvisibleLife ==
    ASSUME \A i \in Jobs : Unseen(i), UNCHANGED hit
    PROVE  UNCHANGED Lifecycle!lifecycle
BY InvisibleStep DEF Lifecycle!lifecycle, Status, Listed, Published

\* The steps of the request that submits job j.
LEMMA SubmissionLife ==
    ASSUME TypeInv, OneDelivery, NEW j \in Jobs,
           \/ Receive(j) \/ ReceiveTooLarge(j)
           \/ SubmitStep(j) \/ SubmitFails(j) \/ SubmitCrashes(j)
           \/ \E w \in Workers : Take(w, j)
    PROVE  Lifecycle!Next \/ UNCHANGED Lifecycle!lifecycle
<1>1. CASE SubmitHSet(j)
  <2>1. api[j] = "queued_hset" /\ UNCHANGED <<blob, artname, hit>>
    BY <1>1 DEF SubmitHSet, SubmitTo, budget
  <2>2. Becomes(j, "queued", hash[j].result)
    BY <1>1, HSetBecomes DEF SubmitHSet, TypeInv, TypeOK
  <2>3. hash[j].status = "absent"
    BY <2>1 DEF OneDelivery, JobInv, Unwritten
  <2>4. Lifecycle!Submit(j)
    BY <2>1, <2>2, <2>3, StatusStep, SubmitSeen
  <2>5. QED
    BY <2>4 DEF Lifecycle!Next
<1>2. ASSUME ~SubmitHSet(j)
      PROVE  \A i \in Jobs : Unseen(i)
  <2>1. \A i \in Jobs : hash'[i].status = hash[i].status /\ hash'[i].result = hash[i].result
    <3>1. CASE SubmitExpire(j)
      BY <3>1, ExpireKeeps DEF SubmitExpire, TypeInv, TypeOK
    <3>2. CASE ~SubmitExpire(j)
      BY <1>2, <3>2
         DEF Receive, ReceiveTooLarge, SubmitStep, StoreUploadData, StoreUploadName, Delay,
             SubmitFails, SubmitCrashes, Take, Begin, store
    <3>3. QED
      BY <3>1, <3>2
  <2>2. UNCHANGED <<blob, artname>>
    BY <1>2 DEF Receive, ReceiveTooLarge, SubmitStep, SubmitTo, SubmitExpire, StoreUploadData,
                StoreUploadName, Delay, SubmitFails, SubmitCrashes, Take, Begin, store
  <2>3. QED
    BY <2>1, <2>2, SilentStep
<1>3. CASE SubmitFails(j) \/ SubmitCrashes(j)
  <2>1. hit' = hit \cup {j} /\ ~SubmitHSet(j)
    BY <1>3 DEF SubmitFails, SubmitCrashes, SubmitHSet, SubmitTo, TypeInv, TypeOK
  <2>2. QED
    BY <1>2, <2>1, FaultSeen
<1>4. CASE ~SubmitHSet(j) /\ ~SubmitFails(j) /\ ~SubmitCrashes(j)
  <2>1. UNCHANGED hit
    BY <1>4 DEF Receive, ReceiveTooLarge, SubmitStep, SubmitTo, SubmitExpire, StoreUploadData,
                StoreUploadName, Delay, Take, Begin, budget
  <2>2. QED
    BY <1>2, <1>4, <2>1, InvisibleLife
<1>5. QED
  BY <1>1, <1>3, <1>4

\* The steps of a task.  A write of failed after the write of the result, which
\* only a fault explains, takes the result back.
LEMMA WorkerLife ==
    ASSUME TypeInv, StoredSoFar, OneDelivery, NEW w \in Workers,
           WorkerStep(w) \/ WorkerFails(w) \/ WorkerCrashes(w)
    PROVE  Lifecycle!Next \/ UNCHANGED Lifecycle!lifecycle
<1> PICK j : j = worker[w].job
  OBVIOUS
<1>1. worker[w].pc # "idle" /\ j \in Jobs /\ WorkInv(w) /\ hash \in [Jobs -> HashType]
  BY StepsAtWork DEF TypeInv, TypeOK, WorkerSane, OneDelivery
<1>2. CASE RunHSet(w)
  <2>1. worker[w].pc = "running_hset" /\ UNCHANGED <<blob, artname, hit>>
    BY <1>2 DEF RunHSet, Goto, budget
  <2>2. Becomes(j, "running", hash[j].result) /\ hash[j].status = "queued"
    BY <1>1, <1>2, <2>1, HSetBecomes DEF RunHSet, WorkInv
  <2>3. Lifecycle!Start(j)
    BY <1>1, <2>1, <2>2, StatusStep, StartSeen
  <2>4. QED
    BY <1>1, <2>3 DEF Lifecycle!Next
<1>3. CASE FinalHSet(w)
  <2>1. UNCHANGED <<blob, artname, hit>> /\ worker[w].verdict \in Finished
    BY <1>3 DEF FinalHSet, Goto, budget, TypeInv, WorkerSane
  <2>2. /\ Becomes(j, worker[w].verdict, worker[w].reports)
        /\ hash[j].status = "running"
        /\ worker[w].reports \cap ArtifactKinds = Stored(j)
    BY <1>3, FinalBecomes, FinalDelivery
  <2>3. Seen(j, worker[w].verdict) /\ hash'[j].result = worker[w].reports
    BY <1>1, <2>1, <2>2, StatusStep
  <2>4. Stored(j)' = Stored(j)
    BY <2>1 DEF Stored
  <2>5. Lifecycle!Complete(j) \/ Lifecycle!Fail(j)
    <3>1. CASE worker[w].verdict = "completed"
      BY <1>1, <2>2, <2>3, <2>4, <3>1, CompleteSeen
    <3>2. CASE worker[w].verdict = "failed"
      BY <1>1, <2>2, <2>3, <3>2, FailSeen
    <3>3. QED
      BY <2>1, <3>1, <3>2
  <2>6. QED
    BY <1>1, <2>5 DEF Lifecycle!Next
<1>4. CASE FailedHSet(w)
  <2>1. worker[w].pc = "failed_hset" /\ UNCHANGED <<blob, artname, hit>>
    BY <1>4 DEF FailedHSet, Goto, budget
  <2>2. Becomes(j, "failed", hash[j].result)
    BY <1>1, <1>4, HSetBecomes DEF FailedHSet
  <2>3. Seen(j, "failed") /\ hash'[j].result = hash[j].result
    BY <1>1, <2>1, <2>2, StatusStep
  <2>4. CASE hash[j].status = "running"
    <3>1. Lifecycle!Fail(j)
      BY <1>1, <2>3, <2>4, FailSeen
    <3>2. QED
      BY <1>1, <3>1 DEF Lifecycle!Next
  <2>5. CASE hash[j].status = "completed" /\ j \in hit
    <3>1. Lifecycle!Retract(j)
      BY <1>1, <2>3, <2>5, RetractSeen
    <3>2. QED
      BY <1>1, <3>1 DEF Lifecycle!Next
  <2>6. CASE hash[j].status = "failed"
    <3>1. \A i \in Jobs : Unseen(i)
      BY <1>1, <2>3, <2>6 DEF Seen, Unseen
    <3>2. QED
      BY <2>1, <3>1, InvisibleLife
  <2>7. QED
    BY <1>1, <2>1, <2>4, <2>5, <2>6 DEF WorkInv
<1>5. CASE (\E k \in ArtifactKinds : StoreBlob(w, k)) \/ StoreName(w)
  <2>1. /\ worker[w].pc \in StorePcs /\ UNCHANGED <<hash, hit>>
        /\ \A i \in Jobs \ {j} : blob'[i] = blob[i] /\ artname'[i] = artname[i]
    BY <1>1, <1>5 DEF StoreBlob, SetBlob, StoreName, budget, TypeInv, TypeOK, StorePcs
  <2>2. hash[j].status = "running"
    BY <1>1, <2>1 DEF WorkInv
  <2>3. \A i \in Jobs : Unseen(i)
    BY <2>1, <2>2 DEF Unseen, Stored
  <2>4. QED
    BY <2>1, <2>3, InvisibleLife
<1>6. CASE \/ RunExpire(w) \/ Locate(w) \/ FetchData(w) \/ FetchName(w) \/ FetchDelete(w)
           \/ Pipeline(w) \/ LastExpire(w) \/ WorkerFails(w) \/ WorkerCrashes(w)
  <2>1. \A i \in Jobs : hash'[i].status = hash[i].status /\ hash'[i].result = hash[i].result
    <3>1. CASE RunExpire(w) \/ LastExpire(w)
      BY <1>1, <3>1, ExpireKeeps DEF RunExpire, LastExpire
    <3>2. CASE ~RunExpire(w) /\ ~LastExpire(w)
      BY <1>6, <3>2 DEF Locate, FetchData, FetchName, FetchDelete, Pipeline, WorkerFails,
                        WorkerCrashes, store
    <3>3. QED
      BY <3>1, <3>2
  <2>2. UNCHANGED <<blob, artname>> /\ hit' \in {hit, hit \cup {j}}
    BY <1>6 DEF RunExpire, Locate, FetchData, FetchName, FetchDelete, Pipeline, LastExpire,
                WorkerFails, WorkerCrashes, Goto, store, budget
  <2>3. \A i \in Jobs : Unseen(i)
    BY <2>1, <2>2, SilentStep
  <2>4. QED
    BY <1>1, <2>2, <2>3, InvisibleLife, FaultSeen
<1>7. QED
  BY <1>2, <1>3, <1>4, <1>5, <1>6 DEF WorkerStep

LEMMA LifeStep ==
    ASSUME DeliveryInv, redeliveries = 0, redeliveries' = 0, ~TtlPasses, [Next]_vars
    PROVE  [Lifecycle!Next]_(Lifecycle!lifecycle)
<1>1. TypeInv /\ StoredSoFar /\ OneDelivery
  BY DEF DeliveryInv, ArtifactInv
<1>2. ASSUME NEW j \in Jobs,
             \/ Receive(j) \/ ReceiveTooLarge(j)
             \/ SubmitStep(j) \/ SubmitFails(j) \/ SubmitCrashes(j)
             \/ \E w \in Workers : Take(w, j)
      PROVE  Lifecycle!Next \/ UNCHANGED Lifecycle!lifecycle
  BY <1>1, <1>2, SubmissionLife
<1>3. ASSUME NEW j \in Jobs, Redeliver(j)
      PROVE  FALSE
  BY <1>3 DEF Redeliver
<1>4. ASSUME NEW w \in Workers, WorkerStep(w) \/ WorkerFails(w) \/ WorkerCrashes(w)
      PROVE  Lifecycle!Next \/ UNCHANGED Lifecycle!lifecycle
  BY <1>1, <1>4, WorkerLife
<1>5. CASE Download \/ UNCHANGED vars
  <2>1. UNCHANGED <<hash, blob, artname, hit>>
    BY <1>5 DEF Download, Request, ReadJob, ReadAgain, ReadData, ReadName, ReadFails, ReadOnly,
                vars, store, budget
  <2>2. QED
    BY <2>1, SilentStep, InvisibleLife
<1>6. QED
  BY <1>2, <1>3, <1>4, <1>5 DEF Next, Tick

LEMMA LifeInit == Init => Lifecycle!Init
BY DEF Init, Lifecycle!Init, View, NoHash

\* The job service keeps the order JobLifecycle promises a client, for any number
\* of jobs, workers, report kinds, failing commands and crashes, as long as the
\* broker redelivers nothing and no TTL runs out: the safety part of
\* KeepsLifecycle.
THEOREM LifecycleKept ==
    (~TtlPasses /\ MaxRedeliveries = 0)
        => (Spec => Lifecycle!Init /\ [][Lifecycle!Next]_(Lifecycle!lifecycle))
<1> SUFFICES ASSUME ~TtlPasses, MaxRedeliveries = 0
             PROVE  Spec => Lifecycle!Init /\ [][Lifecycle!Next]_(Lifecycle!lifecycle)
  OBVIOUS
<1>1. DeliveryInv => redeliveries = 0
  BY DEF DeliveryInv, ArtifactInv, TypeInv, TypeOK
<1>2. DeliveryInv /\ [Next]_vars => DeliveryInv'
  BY DeliveryStep
<1>3. DeliveryInv' => redeliveries' = 0
  BY DEF DeliveryInv, ArtifactInv, TypeInv, TypeOK
<1>4. DeliveryInv /\ [Next]_vars => [Lifecycle!Next]_(Lifecycle!lifecycle)
  BY <1>1, <1>2, <1>3, LifeStep
<1>5. QED
  BY <1>4, LifeInit, DeliveryInvariant, PTL DEF Spec

(***************************************************************************)
(* The development store: LocalJobs, with processes and variables of its   *)
(* own, keeps the promise of the same job API.                             *)
(***************************************************************************)
CONSTANTS Processes, NoProcess, Deployments
VARIABLES deployment, memory, file, stage, owner, client, told, restarts, badWrites, touched

Dev == INSTANCE LocalJobs WITH
    reader <- client, crashes <- restarts, faults <- badWrites, hit <- touched

Stages == Dev!Writing \cup {"new", "published", "running", "caught", "ended", "lost"}

Mine(j) == memory[owner[j]][j]

\* What the stages of a job's thread say of its process, its file and the memory
\* of that process.
StageInv(j) ==
    /\ stage[j] = "new" => owner[j] = NoProcess /\ file[j] = Dev!NoRecord
    /\ stage[j] # "new" => owner[j] \in Processes
    /\ stage[j] \in Dev!Writing \cup {"caught"} => file[j] = Dev!Torn
    /\ stage[j] = "queueing" => Mine(j).status = "queued"
    /\ stage[j] = "published" => file[j].status = "queued"
    /\ stage[j] = "starting" => Mine(j).status = "running"
    /\ stage[j] = "running" => file[j].status = "running"
    /\ stage[j] \in {"ending", "caught"} => Mine(j).status \in Dev!Terminal
    /\ stage[j] = "failing" => Mine(j).status = "failed"
    /\ stage[j] = "ended" => file[j].status \in Dev!Terminal /\ Mine(j) \in {file[j], Dev!NoRecord}
    /\ stage[j] = "lost" => file[j] = Dev!Torn \/ file[j].status \in {"queued", "running"}
    /\ stage[j] \in {"lost", "caught"} => j \in touched

\* What the constants must be like.
ProcessesApart ==
    /\ NoProcess \notin Processes
    /\ \A d \in Deployments : /\ d.apis \cup d.workers \subseteq Processes
                              /\ d.apis \cap d.workers = {}

Typed ==
    /\ ProcessesApart
    /\ deployment \in Deployments
    /\ memory \in [Processes -> [Jobs -> Dev!Records]]
    /\ file \in [Jobs -> Dev!Records]
    /\ stage \in [Jobs -> Stages]
    /\ owner \in [Jobs -> Processes \cup {NoProcess}]
    /\ client = Dev!Idle \/ (client.pc = "memory" /\ client.at \in Processes /\ client.job \in Jobs)
    /\ touched \subseteq Jobs

LocalInv ==
    /\ Typed
    /\ \A j \in Jobs : StageInv(j)

LEMMA RecordsHave ==
    ASSUME NEW s \in {"absent", "queued", "running", "torn", "completed", "failed"},
           NEW b \in BOOLEAN, NEW r \in SUBSET Kinds
    PROVE  Dev!Record(s, b, r) \in Dev!Records /\ Dev!Record(s, b, r).status = s
           /\ Dev!Record(s, b, r).created = b /\ Dev!Record(s, b, r).result = r
BY DEF Dev!Record, Dev!Records, Dev!Terminal

LEMMA NoneAndTorn ==
    /\ Dev!NoRecord \in Dev!Records /\ Dev!Torn \in Dev!Records /\ Dev!NoRecord # Dev!Torn
    /\ Dev!NoRecord.status = "absent" /\ Dev!NoRecord.result = {} /\ Dev!Torn.status = "torn"
BY RecordsHave DEF Dev!NoRecord, Dev!Torn, Dev!Record

LEMMA UpdatedIs ==
    ASSUME NEW x \in Dev!Records,
           NEW s \in {"absent", "queued", "running", "torn", "completed", "failed"},
           NEW b \in BOOLEAN, NEW r \in SUBSET Kinds
    PROVE  Dev!Updated(x, s, b, r) \in Dev!Records /\ Dev!Updated(x, s, b, r).status = s
           /\ Dev!Updated(x, s, b, r).result = IF r = {} THEN x.result ELSE r
<1> DEFINE made == b \/ x.created
           reports == IF r = {} THEN x.result ELSE r
<1>1. x.created \in BOOLEAN /\ x.result \in SUBSET Kinds
    BY DEF Dev!Records
<1>2. made \in BOOLEAN /\ reports \in SUBSET Kinds
    BY <1>1
<1>3. Dev!Updated(x, s, b, r) = Dev!Record(s, made, reports)
    BY DEF Dev!Updated
<1>4. reports = IF r = {} THEN x.result ELSE r
    OBVIOUS
<1> HIDE DEF made, reports
<1> QED BY <1>2, <1>3, <1>4, RecordsHave

\* Who may be at a process of the deployment.
LEMMA Deployed ==
    ASSUME Typed
    PROVE  Dev!Apis \subseteq Processes /\ Dev!Workers \subseteq Processes
           /\ Dev!Apis \cap Dev!Workers = {}
           /\ NoProcess \notin Processes
BY DEF Typed, ProcessesApart, Dev!Apis, Dev!Workers

LEMMA InitLocal == ProcessesApart /\ Dev!Init => LocalInv
BY NoneAndTorn DEF Dev!Init, LocalInv, Typed, StageInv, Stages, Dev!Writing

\* The write of a record begins: what changes, and what it says.
LEMMA Opened ==
    ASSUME Typed, NEW p \in Processes, NEW j \in Jobs,
           NEW s \in {"queued", "running", "completed", "failed"},
           NEW b \in BOOLEAN, NEW r \in SUBSET Kinds, Dev!OpenWrite(p, j, s, b, r)
    PROVE  /\ memory' \in [Processes -> [Jobs -> Dev!Records]] /\ file' \in [Jobs -> Dev!Records]
           /\ file'[j] = Dev!Torn /\ memory'[p][j].status = s
           /\ memory'[p][j].result = IF r = {} THEN memory[p][j].result ELSE r
           /\ \A k \in Jobs \ {j} : file'[k] = file[k]
           /\ \A q \in Processes, k \in Jobs : k # j \/ q # p => memory'[q][k] = memory[q][k]
<1> DEFINE new == Dev!Updated(memory[p][j], s, b, r)
<1>1. new \in Dev!Records /\ new.status = s
      /\ new.result = IF r = {} THEN memory[p][j].result ELSE r
    BY UpdatedIs DEF Typed
<1>2. memory' = [memory EXCEPT ![p][j] = new] /\ file' = [file EXCEPT ![j] = Dev!Torn]
    BY DEF Dev!OpenWrite
<1> HIDE DEF new
<1> QED BY <1>1, <1>2, NoneAndTorn DEF Typed

\* A job that a step leaves alone keeps its part of the invariant.
LEMMA StageOfOthers ==
    ASSUME Typed, NEW k \in Jobs, StageInv(k), stage'[k] = stage[k], owner'[k] = owner[k],
           file'[k] = file[k], \A q \in Processes : memory'[q][k] = memory[q][k],
           touched \subseteq touched'
    PROVE  StageInv(k)'
<1>1. stage[k] # "new" => Mine(k)' = Mine(k)
    BY DEF StageInv, Mine
<1>2. stage[k] \in Stages
    BY DEF Typed
<1> QED BY <1>1, <1>2 DEF StageInv, Stages, Dev!Writing

\* The file of j is being written, and the memory says s.
Shows(j, s) == file[j] = Dev!Torn /\ owner[j] \in Processes /\ Mine(j).status = s

Alone(k) ==
    /\ stage'[k] = stage[k] /\ owner'[k] = owner[k] /\ file'[k] = file[k]
    /\ \A q \in Processes : memory'[q][k] = memory[q][k]

Only(j) == \A k \in Jobs \ {j} : Alone(k)

LocalStatus == {"queued", "running", "completed", "failed"}

\* A thread of process p is about to tell of job j that its status is s.
Wrote(p, j, s) ==
    /\ Only(j) /\ owner'[j] = p /\ Shows(j, s)'
    /\ \A q \in Processes \ {p} : memory'[q][j] = memory[q][j]

\* A thread of process p that has the lock begins to write the status s.
LEMMA WriteBegins ==
    ASSUME LocalInv, NEW p \in Processes, NEW j \in Jobs,
           NEW s \in LocalStatus, NEW b \in BOOLEAN, NEW r \in SUBSET Kinds,
           Dev!OpenWrite(p, j, s, b, r), NEW x \in Dev!Writing, stage' = [stage EXCEPT ![j] = x],
           owner' = [owner EXCEPT ![j] = p], UNCHANGED <<deployment, client, Dev!budget>>
    PROVE  /\ Typed' /\ \A k \in Jobs \ {j} : StageInv(k)'
           /\ stage'[j] = x /\ Wrote(p, j, s)
<1>1. Typed /\ \A k \in Jobs : StageInv(k)
    BY DEF LocalInv
<1>2. s \in {"queued", "running", "completed", "failed"}
    BY DEF LocalStatus
<1>3. /\ memory' \in [Processes -> [Jobs -> Dev!Records]] /\ file' \in [Jobs -> Dev!Records]
      /\ file'[j] = Dev!Torn /\ memory'[p][j].status = s
      /\ memory'[p][j].result = IF r = {} THEN memory[p][j].result ELSE r
      /\ \A k \in Jobs \ {j} : file'[k] = file[k]
      /\ \A q \in Processes, k \in Jobs : k # j \/ q # p => memory'[q][k] = memory[q][k]
    BY <1>1, <1>2, Opened
<1>4. stage' \in [Jobs -> Stages] /\ stage'[j] = x
      /\ owner' \in [Jobs -> Processes \cup {NoProcess}]
      /\ owner'[j] = p /\ \A k \in Jobs \ {j} : stage'[k] = stage[k] /\ owner'[k] = owner[k]
    BY <1>1 DEF Typed, Stages
<1>5. UNCHANGED <<deployment, client, touched>>
    BY DEF Dev!budget
<1>6. Typed'
    BY <1>1, <1>3, <1>4, <1>5 DEF Typed
<1>7. \A k \in Jobs \ {j} : Alone(k)
    BY <1>3, <1>4 DEF Alone
<1>8. \A k \in Jobs \ {j} : StageInv(k)'
    BY <1>1, <1>5, <1>7, StageOfOthers DEF Alone
<1> QED BY <1>3, <1>4, <1>6, <1>7, <1>8 DEF Shows, Mine, Only, Wrote

LEMMA SubmitKeeps ==
    ASSUME LocalInv, NEW p \in Dev!Apis, NEW j \in Jobs, Dev!Submit(p, j)
    PROVE  /\ LocalInv' /\ owner[j] = NoProcess
           /\ Wrote(p, j, "queued")
<1>1. p \in Processes /\ Typed /\ StageInv(j)
    BY Deployed DEF LocalInv
<1>2. Dev!OpenWrite(p, j, "queued", TRUE, {}) /\ stage' = [stage EXCEPT ![j] = "queueing"]
      /\ owner' = [owner EXCEPT ![j] = p] /\ stage[j] = "new"
      /\ UNCHANGED <<deployment, client, Dev!budget>>
    BY DEF Dev!Submit
<1>3. "queued" \in LocalStatus /\ TRUE \in BOOLEAN /\ {} \in SUBSET Kinds
      /\ "queueing" \in Dev!Writing
    BY DEF LocalStatus, Dev!Writing
<1>4. /\ Typed' /\ \A k \in Jobs \ {j} : StageInv(k)'
      /\ stage'[j] = "queueing" /\ Wrote(p, j, "queued")
    BY <1>1, <1>2, <1>3, WriteBegins
<1>5. StageInv(j)'
    BY <1>4 DEF StageInv, Shows, Wrote, Dev!Writing
<1> QED BY <1>1, <1>2, <1>4, <1>5 DEF LocalInv, StageInv
LEMMA StartKeeps ==
    ASSUME LocalInv, NEW p \in Processes, NEW j \in Jobs, Dev!Start(p, j)
    PROVE  /\ LocalInv' /\ file[j].status = "queued"
           /\ owner[j] \in Processes /\ Wrote(p, j, "running")
<1>1. Typed /\ StageInv(j)
    BY DEF LocalInv
<1>2. Dev!OpenWrite(p, j, "running", FALSE, {}) /\ stage' = [stage EXCEPT ![j] = "starting"]
      /\ owner' = [owner EXCEPT ![j] = p] /\ stage[j] = "published"
      /\ UNCHANGED <<deployment, client, Dev!budget>>
    BY DEF Dev!Start
<1>3. "running" \in LocalStatus /\ FALSE \in BOOLEAN /\ {} \in SUBSET Kinds
      /\ "starting" \in Dev!Writing
    BY DEF LocalStatus, Dev!Writing
<1>4. /\ Typed' /\ \A k \in Jobs \ {j} : StageInv(k)'
      /\ stage'[j] = "starting" /\ Wrote(p, j, "running")
    BY <1>1, <1>2, <1>3, WriteBegins
<1>5. StageInv(j)'
    BY <1>4 DEF StageInv, Shows, Wrote, Dev!Writing
<1> QED BY <1>1, <1>2, <1>4, <1>5 DEF LocalInv, StageInv

\* The end of the pipeline and, after a failed write, the second try.
LEMMA EndingKeeps ==
    ASSUME LocalInv, NEW j \in Jobs, NEW s \in Dev!Terminal, NEW r \in SUBSET Kinds,
           Dev!OpenWrite(owner[j], j, s, FALSE, r), NEW x \in {"ending", "failing"},
           x = "failing" => s = "failed",
           stage' = [stage EXCEPT ![j] = x], stage[j] \in {"running", "caught"},
           UNCHANGED <<deployment, owner, client, Dev!budget>>
    PROVE  LocalInv' /\ owner[j] \in Processes /\ Wrote(owner[j], j, s)
<1>1. Typed /\ StageInv(j)
    BY DEF LocalInv
<1>2. owner[j] \in Processes /\ owner' = [owner EXCEPT ![j] = owner[j]]
    BY <1>1 DEF StageInv, Typed
<1>3. s \in LocalStatus /\ FALSE \in BOOLEAN /\ x \in Dev!Writing
    BY DEF LocalStatus, Dev!Writing, Dev!Terminal
<1>4. /\ Typed' /\ \A k \in Jobs \ {j} : StageInv(k)'
      /\ stage'[j] = x /\ Wrote(owner[j], j, s)
    BY <1>2, <1>3, WriteBegins
<1>5. StageInv(j)'
    BY <1>4 DEF StageInv, Shows, Wrote, Dev!Writing, Dev!Terminal
<1> QED BY <1>2, <1>4, <1>5 DEF LocalInv

LEMMA FinishKeeps ==
    ASSUME LocalInv, NEW j \in Jobs, Dev!Finish(j)
    PROVE  /\ LocalInv' /\ stage[j] = "running" /\ file[j].status = "running"
           /\ owner[j] \in Processes /\ \E s \in Dev!Terminal : Wrote(owner[j], j, s)
<1>1. PICK r \in SUBSET Kinds :
          \/ /\ \E s \in {"completed", "failed"} : Dev!OpenWrite(owner[j], j, s, FALSE, r)
             /\ stage' = [stage EXCEPT ![j] = "ending"]
          \/ /\ Dev!OpenWrite(owner[j], j, "failed", FALSE, {})
             /\ stage' = [stage EXCEPT ![j] = "failing"]
    BY DEF Dev!Finish
<1>2. stage[j] = "running" /\ UNCHANGED <<deployment, owner, client, Dev!budget>>
    BY DEF Dev!Finish
<1>3. {} \in SUBSET Kinds /\ "failed" \in Dev!Terminal
    BY DEF Dev!Terminal
<1>4. CASE /\ \E s \in {"completed", "failed"} : Dev!OpenWrite(owner[j], j, s, FALSE, r)
           /\ stage' = [stage EXCEPT ![j] = "ending"]
    <2>1. PICK s \in Dev!Terminal : Dev!OpenWrite(owner[j], j, s, FALSE, r)
        BY <1>4 DEF Dev!Terminal
    <2> QED BY <1>2, <1>4, <2>1, EndingKeeps DEF LocalInv, StageInv
<1>5. CASE /\ Dev!OpenWrite(owner[j], j, "failed", FALSE, {})
           /\ stage' = [stage EXCEPT ![j] = "failing"]
    BY <1>2, <1>3, <1>5, EndingKeeps DEF LocalInv, StageInv
<1> QED BY <1>1, <1>4, <1>5

LEMMA CatchKeeps ==
    ASSUME LocalInv, NEW j \in Jobs, Dev!Catch(j)
    PROVE  /\ LocalInv' /\ j \in touched /\ file[j] = Dev!Torn /\ Mine(j).status \in Dev!Terminal
           /\ owner[j] \in Processes /\ Wrote(owner[j], j, "failed")
<1>1. /\ stage[j] = "caught" /\ Dev!OpenWrite(owner[j], j, "failed", FALSE, {})
      /\ stage' = [stage EXCEPT ![j] = "failing"]
      /\ UNCHANGED <<deployment, owner, client, Dev!budget>>
    BY DEF Dev!Catch
<1>2. {} \in SUBSET Kinds /\ "failed" \in Dev!Terminal
    BY DEF Dev!Terminal
<1>3. j \in touched /\ file[j] = Dev!Torn /\ Mine(j).status \in Dev!Terminal
    BY <1>1 DEF LocalInv, StageInv
<1> QED BY <1>1, <1>2, <1>3, EndingKeeps

LEMMA CloseKeeps ==
    ASSUME LocalInv, NEW j \in Jobs, Dev!CloseWrite(j)
    PROVE  /\ LocalInv' /\ Only(j)
           /\ stage[j] \in Dev!Writing /\ owner[j] \in Processes
           /\ file[j] = Dev!Torn /\ file'[j] = Mine(j) /\ Mine(j).status \in LocalStatus
           /\ UNCHANGED <<memory, owner, touched>>
<1>1. Typed /\ \A k \in Jobs : StageInv(k)
    BY DEF LocalInv
<1>2. /\ stage[j] \in Dev!Writing /\ file' = [file EXCEPT ![j] = Mine(j)]
      /\ stage' = [stage EXCEPT ![j] = CASE @ = "queueing" -> "published"
                                         [] @ = "starting" -> "running"
                                         [] OTHER -> "ended"]
      /\ UNCHANGED <<deployment, memory, owner, client, touched>>
    BY DEF Dev!CloseWrite, Mine, Dev!budget
<1>3. owner[j] \in Processes /\ Mine(j) \in Dev!Records /\ file[j] = Dev!Torn
    BY <1>1, <1>2 DEF Typed, StageInv, Mine, Dev!Writing
<1>4. /\ file' \in [Jobs -> Dev!Records] /\ file'[j] = Mine(j)
      /\ \A k \in Jobs \ {j} : file'[k] = file[k]
    BY <1>1, <1>2, <1>3 DEF Typed
<1>5. /\ stage'[j] = CASE stage[j] = "queueing" -> "published"
                       [] stage[j] = "starting" -> "running"
                       [] OTHER -> "ended"
      /\ \A k \in Jobs \ {j} : stage'[k] = stage[k]
      /\ DOMAIN stage' = Jobs /\ stage' = [k \in Jobs |-> stage'[k]]
    BY <1>1, <1>2 DEF Typed
<1>6. /\ stage[j] = "queueing" => stage'[j] = "published"
      /\ stage[j] = "starting" => stage'[j] = "running"
      /\ stage[j] \in {"ending", "failing"} => stage'[j] = "ended"
    BY <1>5
<1>7. /\ stage[j] = "queueing" => Mine(j).status = "queued"
      /\ stage[j] = "starting" => Mine(j).status = "running"
      /\ stage[j] \in {"ending", "failing"} => Mine(j).status \in Dev!Terminal
    BY <1>1 DEF StageInv, Dev!Terminal
<1>8. stage' \in [Jobs -> Stages]
    BY <1>1, <1>2, <1>5, <1>6 DEF Typed, Stages, Dev!Writing
<1>9. Typed'
    BY <1>1, <1>2, <1>4, <1>8 DEF Typed
<1>10. Mine(j)' = Mine(j)
    BY <1>2 DEF Mine
<1>11. StageInv(j)'
    BY <1>2, <1>3, <1>4, <1>6, <1>7, <1>10 DEF StageInv, Dev!Writing
<1>12. \A k \in Jobs \ {j} : Alone(k) /\ StageInv(k)'
    BY <1>1, <1>2, <1>4, <1>5, StageOfOthers DEF Alone
<1>13. Mine(j).status \in LocalStatus
    BY <1>2, <1>7 DEF Dev!Writing, LocalStatus, Dev!Terminal
<1> QED BY <1>2, <1>3, <1>4, <1>9, <1>11, <1>12, <1>13 DEF LocalInv, Only

LEMMA WriteFailsKeeps ==
    ASSUME LocalInv, NEW j \in Jobs, Dev!WriteFails(j)
    PROVE  LocalInv' /\ UNCHANGED <<memory, file, owner>> /\ touched' = touched \cup {j}
<1>1. Typed /\ \A k \in Jobs : StageInv(k)
    BY DEF LocalInv
<1>2. /\ stage[j] \in Dev!Writing /\ touched' = touched \cup {j}
      /\ stage' = [stage EXCEPT ![j] = IF @ = "ending" THEN "caught" ELSE "lost"]
      /\ UNCHANGED <<deployment, memory, file, owner, client>>
    BY DEF Dev!WriteFails
<1>3. /\ stage' \in [Jobs -> Stages] /\ \A k \in Jobs \ {j} : stage'[k] = stage[k]
      /\ stage'[j] = IF stage[j] = "ending" THEN "caught" ELSE "lost"
    BY <1>1, <1>2 DEF Typed, Stages
<1>4. Typed'
    BY <1>1, <1>2, <1>3 DEF Typed
<1>5. StageInv(j)'
    BY <1>1, <1>2, <1>3 DEF StageInv, Dev!Writing, Mine
<1>6. \A k \in Jobs \ {j} : StageInv(k)'
    BY <1>1, <1>2, <1>3, StageOfOthers
<1> QED BY <1>2, <1>4, <1>5, <1>6 DEF LocalInv

Threads == Dev!Writing \cup {"running", "caught"}
                       \cup (IF Dev!Workers = {} THEN {"published"} ELSE {})
LostBy(p) == {j \in Jobs : owner[j] = p /\ stage[j] \in Threads}

LEMMA CrashKeeps ==
    ASSUME LocalInv, NEW p \in Processes, Dev!Crash(p)
    PROVE  /\ LocalInv' /\ touched' = touched \cup LostBy(p) /\ UNCHANGED <<file, owner>>
           /\ \A q \in Processes, k \in Jobs : 
                  memory'[q][k] = IF q = p THEN Dev!NoRecord ELSE memory[q][k]
<1>1. Typed /\ \A k \in Jobs : StageInv(k)
    BY DEF LocalInv
<1>2. /\ memory' = [memory EXCEPT ![p] = [j \in Jobs |-> Dev!NoRecord]]
      /\ stage' = [j \in Jobs |-> IF j \in LostBy(p) THEN "lost" ELSE stage[j]]
      /\ touched' = touched \cup LostBy(p)
      /\ client' = IF client.at = p THEN Dev!Idle ELSE client
      /\ UNCHANGED <<deployment, file, owner>>
    BY DEF Dev!Crash, LostBy, Threads
<1>3. /\ memory' \in [Processes -> [Jobs -> Dev!Records]]
      /\ \A q \in Processes, k \in Jobs : 
             memory'[q][k] = IF q = p THEN Dev!NoRecord ELSE memory[q][k]
    BY <1>1, <1>2, NoneAndTorn DEF Typed
<1>4. stage' \in [Jobs -> Stages] /\ LostBy(p) \subseteq Jobs
    BY <1>1, <1>2 DEF Typed, Stages, LostBy
<1>5. Typed'
    BY <1>1, <1>2, <1>3, <1>4 DEF Typed
<1>6. ASSUME NEW k \in LostBy(p) PROVE StageInv(k)'
    <2>1. k \in Jobs /\ owner[k] = p
          /\ stage[k] \in Dev!Writing \cup {"running", "caught", "published"}
        BY DEF LostBy, Threads
    <2>2. stage'[k] = "lost" /\ k \in touched' /\ owner'[k] \in Processes /\ file'[k] = file[k]
        BY <1>2, <2>1
    <2>3. file[k] = Dev!Torn \/ file[k].status \in {"queued", "running"}
        BY <1>1, <2>1 DEF StageInv
    <2> QED BY <2>2, <2>3 DEF StageInv, Dev!Writing
<1>7. ASSUME NEW k \in Jobs \ LostBy(p) PROVE StageInv(k)'
    <2>1. stage'[k] = stage[k] /\ owner'[k] = owner[k] /\ file'[k] = file[k]
          /\ (k \in touched => k \in touched')
          /\ stage[k] \in Stages
        BY <1>1, <1>2 DEF Typed
    <2>2. CASE owner[k] # p
        <3>1. stage[k] # "new" => Mine(k)' = Mine(k)
            BY <1>1, <1>3, <2>1, <2>2 DEF Mine, StageInv
        <3> QED BY <1>1, <2>1, <3>1 DEF StageInv, Stages, Dev!Writing
    <2>3. CASE owner[k] = p
        <3>1. stage[k] \notin Dev!Writing \cup {"running", "caught"}
            BY <2>3 DEF LostBy, Threads
        <3>2. Mine(k)' = Dev!NoRecord
            BY <1>3, <2>1, <2>3 DEF Mine
        <3> QED BY <1>1, <2>1, <3>1, <3>2 DEF StageInv, Stages, Dev!Writing
    <2> QED BY <2>2, <2>3
<1> QED BY <1>2, <1>3, <1>5, <1>6, <1>7 DEF LocalInv

LEMMA ReadingKeeps ==
    ASSUME LocalInv,
           Dev!ReadMemory \/ (\E p \in Dev!Apis : \E j \in Jobs : Dev!ReadDisk(p, j))
           \/ UNCHANGED Dev!vars
    PROVE  LocalInv' /\ UNCHANGED <<memory, file, owner, touched>>
<1>1. Typed /\ Dev!Apis \subseteq Processes
    BY Deployed DEF LocalInv
<1>2. UNCHANGED <<deployment, memory, file, stage, owner, touched>>
    BY DEF Dev!ReadMemory, Dev!ReadDisk, Dev!vars, Dev!budget
<1>3. (\/ client = Dev!Idle
       \/ client.pc = "memory" /\ client.at \in Processes /\ client.job \in Jobs)'
    BY <1>1 DEF Dev!ReadMemory, Dev!ReadDisk, Dev!vars, Typed
<1>4. Typed'
    BY <1>1, <1>2, <1>3 DEF Typed
<1> QED BY <1>2, <1>4 DEF LocalInv, StageInv, Mine
(***************************************************************************)
(* What a client sees of the development store.                            *)
(***************************************************************************)
Says(j) == Dev!ShownByOwner(j).status

LEMMA NobodyShows ==
    ASSUME NEW j \in Jobs, owner[j] = NoProcess
    PROVE  Says(j) = "absent" /\ Dev!ListedByOwner(j) = {}
BY NoneAndTorn DEF Says, Dev!ShownByOwner, Dev!ListedByOwner

LEMMA WritingShows ==
    ASSUME LocalInv, NEW j \in Jobs, NEW s \in LocalStatus, Shows(j, s)
    PROVE  /\ Says(j) = s /\ Dev!ShownByOwner(j) = Mine(j)
           /\ Dev!ListedByOwner(j) = IF s = "completed" THEN Mine(j).result ELSE {}
           /\ Mine(j).result \in SUBSET Kinds
<1>1. owner[j] # NoProcess /\ ~Dev!Readable(file[j])
    BY Deployed, NoneAndTorn DEF LocalInv, Shows, Dev!Readable
<1>2. Dev!ShownByOwner(j) = Mine(j)
    BY <1>1 DEF Dev!ShownByOwner, Dev!Shown, Dev!View, Mine
<1>3. Mine(j) \in Dev!Records
    BY DEF LocalInv, Typed, Mine, Shows
<1> QED BY <1>2, <1>3 DEF Says, Shows, Dev!ListedByOwner, Dev!Records

LEMMA WritingWillShow ==
    ASSUME LocalInv', NEW j \in Jobs, NEW s \in LocalStatus, Shows(j, s)'
    PROVE  /\ Says(j)' = s
           /\ s # "completed" => Dev!ListedByOwner(j)' = {}
           /\ Dev!ListedByOwner(j)' \in SUBSET Kinds
<1>1. owner'[j] \in Processes /\ owner'[j] # NoProcess /\ ~Dev!Readable(file'[j])
    BY NoneAndTorn DEF LocalInv, Typed, ProcessesApart, Shows, Dev!Readable
<1>2. Dev!ShownByOwner(j)' = Mine(j)'
    BY <1>1 DEF Dev!ShownByOwner, Dev!Shown, Dev!View, Mine
<1>3. Mine(j)' \in Dev!Records
    BY <1>1 DEF LocalInv, Typed, Mine
<1>4. Mine(j)'.result \in SUBSET Kinds
    BY <1>3 DEF Dev!Records
<1> QED BY <1>2, <1>4 DEF Says, Shows, Dev!ListedByOwner

LEMMA FileShows ==
    ASSUME LocalInv, NEW j \in Jobs, owner[j] \in Processes, file[j].status \in LocalStatus
    PROVE  Says(j) = file[j].status /\ (file[j].status # "completed" => Dev!ListedByOwner(j) = {})
<1>1. owner[j] # NoProcess /\ Dev!Readable(file[j])
    BY Deployed DEF LocalInv, Dev!Readable, LocalStatus
<1>2. Says(j) = file[j].status
    BY <1>1 DEF Says, Dev!ShownByOwner, Dev!Shown, Dev!View, Dev!Record
<1> QED BY <1>2 DEF Says, Dev!ListedByOwner

LEMMA AloneShows ==
    ASSUME LocalInv, NEW k \in Jobs, Alone(k)
    PROVE  Says(k)' = Says(k) /\ Dev!ListedByOwner(k)' = Dev!ListedByOwner(k)
<1>1. owner[k] = NoProcess \/ memory'[owner[k]][k] = memory[owner[k]][k]
    BY DEF LocalInv, Typed, Alone
<1> QED BY <1>1 DEF Says, Dev!ListedByOwner, Dev!ShownByOwner, Dev!Shown, Alone

\* How what is shown of j may change in a step that hits nothing.
Changes(j) ==
    \/ /\ Says(j) = "absent" /\ Says(j)' = "queued"
       /\ Dev!ListedByOwner(j) = {} /\ Dev!ListedByOwner(j)' = {}
    \/ /\ Says(j) = "queued" /\ Says(j)' = "running"
       /\ Dev!ListedByOwner(j) = {} /\ Dev!ListedByOwner(j)' = {}
    \/ /\ Says(j) = "running" /\ Says(j)' = "completed" /\ Dev!ListedByOwner(j)' \in SUBSET Kinds
    \/ /\ Says(j) = "running" /\ Says(j)' = "failed"
       /\ Dev!ListedByOwner(j) = {} /\ Dev!ListedByOwner(j)' = {}
    \/ /\ Says(j) = "completed" /\ Says(j)' = "failed" /\ j \in touched
       /\ Dev!ListedByOwner(j)' = {}
    \/ /\ Says(j)' = Says(j) /\ Dev!ListedByOwner(j)' = Dev!ListedByOwner(j)

Sight == [k \in Jobs |-> Dev!ShownByOwner(k).status]
Lists == [k \in Jobs |-> Dev!ListedByOwner(k)]

LEMMA OneChanges ==
    ASSUME LocalInv, NEW j \in Jobs, Only(j)
    PROVE  /\ Sight' = [Sight EXCEPT ![j] = Says(j)'] /\ Sight[j] = Says(j)
           /\ Lists' = [Lists EXCEPT ![j] = Dev!ListedByOwner(j)']
           /\ Lists = [Lists EXCEPT ![j] = Dev!ListedByOwner(j)]
           /\ Sight = [Sight EXCEPT ![j] = Says(j)]
<1>1. \A k \in Jobs \ {j} : Says(k)' = Says(k) /\ Dev!ListedByOwner(k)' = Dev!ListedByOwner(k)
    BY AloneShows DEF Only
<1> QED BY <1>1 DEF Sight, Lists, Says

\* The steps of one job that a client sees, as steps of JobLifecycle.
LEMMA OneStep ==
    ASSUME LocalInv, NEW j \in Jobs, Only(j), touched' = touched, Changes(j)
    PROVE  [Dev!Lifecycle!Next]_(Dev!Lifecycle!lifecycle)
<1> DEFINE st == Sight
           li == Lists
<1>1. /\ st' = [st EXCEPT ![j] = Says(j)'] /\ li' = [li EXCEPT ![j] = Dev!ListedByOwner(j)']
      /\ st[j] = Says(j)
    BY OneChanges
<1>2. li = [li EXCEPT ![j] = Dev!ListedByOwner(j)] /\ st = [st EXCEPT ![j] = Says(j)]
    BY OneChanges
<1>4. CASE Says(j) = "absent" /\ Says(j)' = "queued"
                /\ Dev!ListedByOwner(j) = {} /\ Dev!ListedByOwner(j)' = {}
    <2>1. st[j] = "absent" /\ st' = [st EXCEPT ![j] = "queued"] /\ li' = li
        BY <1>1, <1>2, <1>4
    <2>2. Dev!Lifecycle!Submit(j)
        BY <2>1 DEF Dev!Lifecycle!Submit, Sight, Lists
    <2> QED BY <2>2 DEF Dev!Lifecycle!Next
<1>5. CASE Says(j) = "queued" /\ Says(j)' = "running"
                /\ Dev!ListedByOwner(j) = {} /\ Dev!ListedByOwner(j)' = {}
    <2>1. st[j] = "queued" /\ st' = [st EXCEPT ![j] = "running"] /\ li' = li
        BY <1>1, <1>2, <1>5
    <2>2. Dev!Lifecycle!Start(j)
        BY <2>1 DEF Dev!Lifecycle!Start, Sight, Lists
    <2> QED BY <2>2 DEF Dev!Lifecycle!Next
<1>6. CASE Says(j) = "running" /\ Says(j)' = "completed" /\ Dev!ListedByOwner(j)' \in SUBSET Kinds
    <2>1. st[j] = "running" /\ st' = [st EXCEPT ![j] = "completed"]
          /\ \E r \in SUBSET Kinds : li' = [li EXCEPT ![j] = r]
        BY <1>1, <1>6
    <2>2. Dev!Lifecycle!Complete(j)
        BY <2>1 DEF Dev!Lifecycle!Complete, Sight, Lists
    <2> QED BY <2>2 DEF Dev!Lifecycle!Next
<1>7. CASE Says(j) = "running" /\ Says(j)' = "failed"
                /\ Dev!ListedByOwner(j) = {} /\ Dev!ListedByOwner(j)' = {}
    <2>1. st[j] = "running" /\ st' = [st EXCEPT ![j] = "failed"] /\ li' = li
        BY <1>1, <1>2, <1>7
    <2>2. Dev!Lifecycle!Fail(j)
        BY <2>1 DEF Dev!Lifecycle!Fail, Sight, Lists
    <2> QED BY <2>2 DEF Dev!Lifecycle!Next
<1>8. CASE Says(j) = "completed" /\ Says(j)' = "failed" /\ j \in touched
                /\ Dev!ListedByOwner(j)' = {}
    <2>1. st[j] = "completed" /\ st' = [st EXCEPT ![j] = "failed"] /\ li' = [li EXCEPT ![j] = {}]
        BY <1>1, <1>8
    <2>2. Dev!Lifecycle!Retract(j)
        BY <2>1, <1>8 DEF Dev!Lifecycle!Retract, Sight, Lists
    <2> QED BY <2>2 DEF Dev!Lifecycle!Next
<1>9. CASE Says(j)' = Says(j) /\ Dev!ListedByOwner(j)' = Dev!ListedByOwner(j)
    <2>1. st' = st /\ li' = li
        BY <1>1, <1>2, <1>9
    <2> QED BY <2>1 DEF Dev!Lifecycle!lifecycle, Sight, Lists
<1> QED BY <1>4, <1>5, <1>6, <1>7, <1>8, <1>9 DEF Changes

\* A fault, as JobLifecycle allows it.
LEMMA OneFault ==
    ASSUME LocalInv, NEW S \in SUBSET Jobs, touched' = touched \cup S, NEW F \in SUBSET S,
           \A k \in Jobs : /\ Says(k)' = IF k \in F THEN "absent" ELSE Says(k)
                           /\ Dev!ListedByOwner(k)' = IF k \in F THEN {} ELSE Dev!ListedByOwner(k)
    PROVE  [Dev!Lifecycle!Next]_(Dev!Lifecycle!lifecycle)
<1>1. /\ Sight' = [k \in Jobs |-> IF k \in F THEN "absent" ELSE Sight[k]]
      /\ Lists' = [k \in Jobs |-> IF k \in F THEN {} ELSE Lists[k]]
    BY DEF Sight, Lists, Says
<1>2. Dev!Lifecycle!Fault(S, F)
    BY <1>1 DEF Dev!Lifecycle!Fault, Sight, Lists
<1> QED BY <1>2 DEF Dev!Lifecycle!Next

LEMMA CrashSteps ==
    ASSUME LocalInv, NEW p \in Processes, Dev!Crash(p)
    PROVE  [Dev!Lifecycle!Next]_(Dev!Lifecycle!lifecycle)
<1> DEFINE gone == {j \in Jobs : owner[j] = p /\ stage[j] = "lost"}
           F == {j \in Jobs : owner[j] = p /\ ~Dev!Readable(file[j])}
           S == LostBy(p) \cup gone
<1>1. /\ LocalInv' /\ touched' = touched \cup LostBy(p) /\ UNCHANGED <<file, owner>>
      /\ \A q \in Processes, k \in Jobs : 
             memory'[q][k] = IF q = p THEN Dev!NoRecord ELSE memory[q][k]
    BY CrashKeeps
<1>2. /\ Typed /\ p # NoProcess
      /\ \A k \in Jobs : StageInv(k) /\ stage[k] \in Stages /\ file[k] \in Dev!Records
      /\ \A k \in Jobs : owner[k] = NoProcess \/ owner[k] \in Processes
    BY Deployed DEF LocalInv, Typed
<1>3. gone \subseteq touched /\ S \in SUBSET Jobs
    BY <1>2 DEF StageInv, LostBy
<1>4. touched' = touched \cup S
    BY <1>1, <1>3
<1>5. ASSUME NEW k \in F PROVE k \in S
    <2>1. k \in Jobs /\ owner[k] = p /\ ~Dev!Readable(file[k])
        OBVIOUS
    <2>2. stage[k] \notin {"new", "published", "running", "ended"}
        BY <1>2, <2>1 DEF StageInv, Dev!Readable, Dev!Terminal
    <2>3. stage[k] \in Dev!Writing \cup {"caught", "lost"}
        BY <1>2, <2>1, <2>2 DEF Stages
    <2> QED BY <2>1, <2>3 DEF LostBy, Threads
<1>6. ASSUME NEW k \in F PROVE Says(k)' = "absent" /\ Dev!ListedByOwner(k)' = {}
    <2>1. owner'[k] = p /\ ~Dev!Readable(file'[k]) /\ memory'[p][k] = Dev!NoRecord
        BY <1>1
    <2>2. Dev!ShownByOwner(k)' = Dev!NoRecord
        BY <1>2, <2>1 DEF Dev!ShownByOwner, Dev!Shown, Dev!View
    <2> QED BY <2>2, NoneAndTorn DEF Says, Dev!ListedByOwner
<1>7. ASSUME NEW k \in Jobs \ F
      PROVE  Says(k)' = Says(k) /\ Dev!ListedByOwner(k)' = Dev!ListedByOwner(k)
    <2>1. CASE owner[k] # p
        <3>1. Alone(k) \/ owner[k] = NoProcess \/ memory'[owner[k]][k] = memory[owner[k]][k]
            BY <1>1, <1>2, <2>1
        <3>2. owner[k] = NoProcess \/ memory'[owner[k]][k] = memory[owner[k]][k]
            BY <1>1, <1>2, <2>1
        <3> QED BY <1>1, <3>2 DEF Says, Dev!ListedByOwner, Dev!ShownByOwner, Dev!Shown
    <2>2. CASE owner[k] = p
        <3>1. Dev!Readable(file[k]) /\ Dev!Readable(file'[k]) /\ owner[k] # NoProcess
              /\ owner'[k] # NoProcess
            BY <1>1, <1>2, <2>2
        <3>2. Says(k) = file[k].status /\ Says(k)' = file[k].status
            BY <1>1, <3>1 DEF Says, Dev!ShownByOwner, Dev!Shown, Dev!View, Dev!Record
        <3>3. CASE file[k].status # "completed"
            BY <3>2, <3>3 DEF Says, Dev!ListedByOwner
        <3>4. CASE file[k].status = "completed"
            <4>1. stage[k] = "ended"
                BY <1>2, <3>4, NoneAndTorn DEF StageInv, Stages
            <4>2. Mine(k) \in {file[k], Dev!NoRecord} /\ Mine(k)' = Dev!NoRecord
                BY <1>1, <1>2, <2>2, <4>1 DEF StageInv, Mine
            <4>3. Dev!ShownByOwner(k).result = IF file[k].result = {} THEN Mine(k).result
                  ELSE file[k].result
                BY <3>1 DEF Dev!ShownByOwner, Dev!Shown, Dev!View, Dev!Record, Mine
            <4>4. Dev!ShownByOwner(k)'.result = IF file'[k].result = {} THEN Mine(k)'.result
                  ELSE file'[k].result
                BY <3>1 DEF Dev!ShownByOwner, Dev!Shown, Dev!View, Dev!Record, Mine
            <4>5. Dev!ShownByOwner(k)'.result = file[k].result
                  /\ Dev!ShownByOwner(k).result = file[k].result
                BY <1>1, <4>2, <4>3, <4>4, NoneAndTorn
            <4> QED BY <3>2, <4>5 DEF Says, Dev!ListedByOwner
        <3> QED BY <3>3, <3>4
    <2> QED BY <2>1, <2>2
<1> HIDE DEF S, F
<1>8. F \in SUBSET S
    BY <1>5
<1> QED BY <1>3, <1>4, <1>6, <1>7, <1>8, OneFault

LEMMA LocalSteps ==
    ASSUME LocalInv, [Dev!Next]_(Dev!vars)
    PROVE  LocalInv' /\ [Dev!Lifecycle!Next]_(Dev!Lifecycle!lifecycle)
<1>1. ASSUME NEW p \in Dev!Apis, NEW j \in Jobs, Dev!Submit(p, j)
      PROVE  LocalInv' /\ [Dev!Lifecycle!Next]_(Dev!Lifecycle!lifecycle)
    <2>1. /\ LocalInv' /\ owner[j] = NoProcess /\ Only(j)
          /\ Shows(j, "queued")' /\ touched' = touched
        BY <1>1, SubmitKeeps DEF Dev!Submit, Dev!budget, Wrote
    <2>2. Says(j)' = "queued" /\ Dev!ListedByOwner(j)' = {}
        BY <2>1, WritingWillShow DEF LocalStatus
    <2>9. Changes(j)
        BY <2>1, <2>2, NobodyShows DEF Changes
    <2> QED BY <2>1, <2>9, OneStep
<1>2. ASSUME NEW p \in Processes, NEW j \in Jobs, Dev!Start(p, j)
      PROVE  LocalInv' /\ [Dev!Lifecycle!Next]_(Dev!Lifecycle!lifecycle)
    <2>1. /\ LocalInv' /\ file[j].status = "queued" /\ Only(j)
          /\ owner[j] \in Processes /\ Shows(j, "running")' /\ touched' = touched
        BY <1>2, StartKeeps DEF Dev!Start, Dev!budget, Wrote
    <2>2. Says(j)' = "running" /\ Dev!ListedByOwner(j)' = {}
        BY <2>1, WritingWillShow DEF LocalStatus
    <2>3. Says(j) = "queued" /\ Dev!ListedByOwner(j) = {}
        BY <2>1, FileShows DEF LocalStatus
    <2>9. Changes(j)
        BY <2>1, <2>2, <2>3 DEF Changes
    <2> QED BY <2>1, <2>9, OneStep
<1>3. ASSUME NEW j \in Jobs, Dev!Finish(j)
      PROVE  LocalInv' /\ [Dev!Lifecycle!Next]_(Dev!Lifecycle!lifecycle)
    <2>1. LocalInv' /\ file[j].status = "running" /\ owner[j] \in Processes /\ touched' = touched
        BY <1>3, FinishKeeps DEF Dev!Finish, Dev!budget
    <2>2. PICK s \in Dev!Terminal : Only(j) /\ Shows(j, s)'
        BY <1>3, FinishKeeps DEF Wrote
    <2>3. s \in {"completed", "failed"} /\ s \in LocalStatus
        BY DEF Dev!Terminal, LocalStatus
    <2>4. Says(j)' = s /\ Dev!ListedByOwner(j)' \in SUBSET Kinds
          /\ (s # "completed" => Dev!ListedByOwner(j)' = {})
        BY <2>1, <2>2, <2>3, WritingWillShow
    <2>5. Says(j) = "running" /\ Dev!ListedByOwner(j) = {}
        BY <2>1, FileShows DEF LocalStatus
    <2>9. Changes(j)
        BY <2>1, <2>3, <2>4, <2>5 DEF Changes
    <2> QED BY <2>1, <2>2, <2>9, OneStep
<1>4. ASSUME NEW j \in Jobs, Dev!Catch(j)
      PROVE  LocalInv' /\ [Dev!Lifecycle!Next]_(Dev!Lifecycle!lifecycle)
    <2>1. /\ LocalInv' /\ j \in touched /\ file[j] = Dev!Torn /\ Only(j)
          /\ owner[j] \in Processes /\ Shows(j, "failed")' /\ Mine(j).status \in Dev!Terminal
             /\ touched' = touched
        BY <1>4, CatchKeeps DEF Dev!Catch, Dev!budget, Wrote
    <2>2. Says(j)' = "failed" /\ Dev!ListedByOwner(j)' = {}
        BY <2>1, WritingWillShow DEF LocalStatus
    <2>3. Says(j) = Mine(j).status /\ (Mine(j).status # "completed" => Dev!ListedByOwner(j) = {})
        BY <2>1, WritingShows DEF LocalStatus, Dev!Terminal, Shows
    <2>4. Mine(j).status \in {"completed", "failed"}
        BY <2>1 DEF Dev!Terminal
    <2>9. Changes(j)
        BY <2>1, <2>2, <2>3, <2>4 DEF Changes
    <2> QED BY <2>1, <2>9, OneStep
<1>5. ASSUME NEW j \in Jobs, Dev!CloseWrite(j)
      PROVE  LocalInv' /\ [Dev!Lifecycle!Next]_(Dev!Lifecycle!lifecycle)
    <2>1. /\ LocalInv' /\ Only(j) /\ owner[j] \in Processes
          /\ file[j] = Dev!Torn /\ file'[j] = Mine(j) /\ Mine(j).status \in LocalStatus
          /\ UNCHANGED <<memory, owner, touched>>
        BY <1>5, CloseKeeps
    <2>2. Says(j) = Mine(j).status /\ Dev!ShownByOwner(j) = Mine(j)
        BY <2>1, WritingShows DEF Shows
    <2>3. owner'[j] # NoProcess /\ Dev!Readable(file'[j])
        BY <2>1, Deployed DEF LocalInv, Dev!Readable, LocalStatus
    <2>4. Mine(j)' = Mine(j)
        BY <2>1 DEF Mine
    <2>5. Says(j)' = Mine(j).status
        BY <2>1, <2>3, <2>4 DEF Says, Dev!ShownByOwner, Dev!Shown, Dev!View, Mine, Dev!Record
    <2>6. Dev!ShownByOwner(j)'.result = Mine(j).result
        BY <2>1, <2>3, <2>4 DEF Dev!ShownByOwner, Dev!Shown, Dev!View, Mine, Dev!Record
    <2>7. Dev!ListedByOwner(j)' = Dev!ListedByOwner(j)
        BY <2>2, <2>5, <2>6 DEF Dev!ListedByOwner, Says
    <2>9. Changes(j)
        BY <2>1, <2>2, <2>5, <2>7 DEF Changes
    <2> QED BY <2>1, <2>9, OneStep
<1>6. ASSUME NEW j \in Jobs, Dev!WriteFails(j)
      PROVE  LocalInv' /\ [Dev!Lifecycle!Next]_(Dev!Lifecycle!lifecycle)
    <2>1. LocalInv' /\ UNCHANGED <<memory, file, owner>> /\ touched' = touched \cup {j}
        BY <1>6, WriteFailsKeeps
    <2>2. \A k \in Jobs : Says(k)' = Says(k) /\ Dev!ListedByOwner(k)' = Dev!ListedByOwner(k)
        BY <2>1 DEF Says, Dev!ListedByOwner, Dev!ShownByOwner, Dev!Shown
    <2>3. ASSUME NEW S \in SUBSET Jobs, touched' = touched \cup S
          PROVE  [Dev!Lifecycle!Next]_(Dev!Lifecycle!lifecycle)
        <3>1. {} \in SUBSET S
            OBVIOUS
        <3>2. \A k \in Jobs : /\ Says(k)' = IF k \in {} THEN "absent" ELSE Says(k)
                              /\ Dev!ListedByOwner(k)' = 
                                    IF k \in {} THEN {} ELSE Dev!ListedByOwner(k)
            BY <2>2
        <3> QED BY <2>3, <3>1, <3>2, OneFault
    <2> QED BY <2>1, <2>3
<1>7. ASSUME NEW p \in Dev!Apis \cup Dev!Workers, Dev!Crash(p)
      PROVE  LocalInv' /\ [Dev!Lifecycle!Next]_(Dev!Lifecycle!lifecycle)
    BY <1>7, Deployed, CrashKeeps, CrashSteps DEF LocalInv
<1>8. CASE Dev!ReadMemory \/ (\E p \in Dev!Apis : \E j \in Jobs : Dev!ReadDisk(p, j))
           \/ UNCHANGED Dev!vars
    <2>1. LocalInv' /\ UNCHANGED <<memory, file, owner, touched>>
        BY <1>8, ReadingKeeps
    <2> QED BY <2>1 DEF Dev!Lifecycle!lifecycle, Dev!ShownByOwner, Dev!ListedByOwner, Dev!Shown
<1> QED BY <1>1, <1>2, <1>3, <1>4, <1>5, <1>6, <1>7, <1>8 DEF Dev!Next, Dev!Advance

\* Without Redis too the service keeps the order JobLifecycle promises a client,
\* with a broker and without, for any number of processes and jobs, crashes and
\* writes that fail: the safety part of KeepsLifecycle.
THEOREM LocalLifecycleKept ==
    ProcessesApart =>
        (Dev!Spec => Dev!Lifecycle!Init /\ [][Dev!Lifecycle!Next]_(Dev!Lifecycle!lifecycle))
<1> SUFFICES ASSUME ProcessesApart
             PROVE  Dev!Spec => Dev!Lifecycle!Init
                    /\ [][Dev!Lifecycle!Next]_(Dev!Lifecycle!lifecycle)
    OBVIOUS
<1>1. Dev!Init => LocalInv
    BY InitLocal
<1>2. Dev!Init => Dev!Lifecycle!Init
    BY NoneAndTorn DEF Dev!Init, Dev!Lifecycle!Init, Dev!ShownByOwner, Dev!ListedByOwner
<1>3. LocalInv /\ [Dev!Next]_(Dev!vars) => LocalInv'
      /\ [Dev!Lifecycle!Next]_(Dev!Lifecycle!lifecycle)
    BY LocalSteps
<1> QED BY <1>1, <1>2, <1>3, PTL DEF Dev!Spec
(***************************************************************************)
(* What clients are told.                                                  *)
(***************************************************************************)

Progress == {"absent"} \cup LocalStatus

\* With workers that share the directory: an API process remembers no outcome of its own,
\* and what a client was told of an outcome is in the file.
Shared ==
    /\ \A a \in Dev!Apis, j \in Jobs : memory[a][j].status \in {"absent", "queued"}
    /\ \A j \in Jobs : stage[j] \in {"starting", "running", "ending", "caught", "failing"}
                          => owner[j] \in Dev!Workers
    /\ \A j \in Jobs : told[j] \in Dev!Terminal => file[j].status = told[j]
    /\ client.pc = "memory" =>
          /\ client.disk.status \in Dev!Terminal => file[client.job].status = client.disk.status
          /\ told[client.job] \in Dev!Terminal => client.disk.status = told[client.job]

\* How far a job is, as the one process knows while it lives.
Now(j) == IF owner[j] = NoProcess THEN "absent" ELSE Mine(j).status

AtHome(j) ==
    /\ stage[j] = "new" => \A p \in Processes : memory[p][j] = Dev!NoRecord
    /\ stage[j] # "new" => owner[j] \in Dev!Apis /\ Now(j) \in LocalStatus
    /\ Dev!Readable(file[j]) => file[j].status = Now(j)
    /\ told[j] \in Progress /\ Dev!Rank[told[j]] <= Dev!Rank[Now(j)]

Alive ==
    /\ \A j \in Jobs : AtHome(j)
    /\ \A j \in Jobs :
          client.pc = "memory" /\ client.job = j /\ Dev!Readable(client.disk) =>
              /\ client.disk.status \in LocalStatus
              /\ Dev!Rank[told[j]] <= Dev!Rank[client.disk.status]
              /\ Dev!Rank[client.disk.status] <= Dev!Rank[Now(j)]

ToldInv ==
    /\ LocalInv
    /\ told = [j \in Jobs |-> told[j]]
    /\ restarts \in Nat
    /\ client.pc = "memory" => client.at \in Dev!Apis
    /\ Dev!Workers # {} => Shared
    /\ Dev!Workers = {} /\ restarts = 0 => Alive

LEMMA Ranks ==
    /\ Dev!Rank["absent"] = 0 /\ Dev!Rank["queued"] = 1 /\ Dev!Rank["running"] = 2
    /\ Dev!Rank["completed"] = 3 /\ Dev!Rank["failed"] = 3
    /\ \A s \in Progress : Dev!Rank[s] \in Nat
BY DEF Dev!Rank, Progress, LocalStatus

LEMMA InitTold == ProcessesApart /\ Dev!Init => ToldInv
<1> SUFFICES ASSUME ProcessesApart, Dev!Init PROVE ToldInv
    OBVIOUS
<1>1. LocalInv
    BY InitLocal
<1>2. /\ \A j \in Jobs : /\ told[j] = "absent" /\ stage[j] = "new" /\ owner[j] = NoProcess
                        /\ file[j] = Dev!NoRecord
                           /\ \A p \in Processes : memory[p][j] = Dev!NoRecord
      /\ restarts = 0 /\ client.pc = "idle"
    BY DEF Dev!Init, Dev!Idle
<1>3. Shared
    BY <1>1, <1>2, NoneAndTorn, Deployed DEF LocalInv, Shared, Dev!Terminal
<1>4. Alive
    BY <1>2, NoneAndTorn, Ranks DEF Alive, AtHome, Now, Dev!Readable, Progress
<1>5. told = [j \in Jobs |-> told[j]]
    BY DEF Dev!Init
<1> QED BY <1>1, <1>2, <1>3, <1>4, <1>5 DEF ToldInv

\* A job whose thread is at work has no outcome in its file.
LEMMA NotYet ==
    ASSUME LocalInv, NEW j \in Jobs, stage[j] # "ended"
    PROVE  file[j].status \notin Dev!Terminal
BY NoneAndTorn DEF LocalInv, StageInv, Typed, Stages, Dev!Writing, Dev!Terminal

\* A thread takes a step for job j; the client is between two requests or waits.
LEMMA SharedStep ==
    ASSUME LocalInv, LocalInv', Shared, NEW j \in Jobs, Only(j), stage[j] # "ended",
           UNCHANGED <<deployment, client, told>>,
           \A a \in Dev!Apis : memory'[a][j].status \in {"absent", "queued"},
           stage'[j] \in {"starting", "running", "ending", "caught", "failing"}
                 => owner'[j] \in Dev!Workers
    PROVE  Shared'
<1>1. file[j].status \notin Dev!Terminal
    BY NotYet
<1>2. \A k \in Jobs : file[k].status \in Dev!Terminal => file'[k] = file[k]
    BY <1>1 DEF Only, Alone
<1>3. Dev!Apis' = Dev!Apis /\ Dev!Workers' = Dev!Workers /\ Dev!Apis \subseteq Processes
    BY Deployed DEF Dev!Apis, Dev!Workers, LocalInv
<1>4. \A a \in Dev!Apis, k \in Jobs : memory'[a][k].status \in {"absent", "queued"}
    BY <1>3 DEF Only, Alone, Shared
<1>5. \A k \in Jobs : stage'[k] \in {"starting", "running", "ending", "caught", "failing"}
                          => owner'[k] \in Dev!Workers
    BY DEF Only, Alone, Shared
<1>6. \A k \in Jobs : told'[k] \in Dev!Terminal => file'[k].status = told'[k]
    BY <1>2 DEF Shared
<1>7. client.pc = "memory" => client.job \in Jobs
    BY DEF LocalInv, Typed, Dev!Idle
<1>8. client'.pc = "memory" =>
          /\ client'.disk.status \in Dev!Terminal => file'[client'.job].status = client'.disk.status
          /\ told'[client'.job] \in Dev!Terminal => client'.disk.status = told'[client'.job]
    BY <1>2, <1>7 DEF Shared
<1> QED BY <1>3, <1>4, <1>5, <1>6, <1>8 DEF Shared

LEMMA AliveStep ==
    ASSUME LocalInv, Alive, NEW j \in Jobs, Only(j),
           UNCHANGED <<deployment, client, told>>,
           stage'[j] # "new" /\ owner'[j] \in Dev!Apis /\ Now(j)' \in LocalStatus,
           Dev!Readable(file'[j]) => file'[j].status = Now(j)',
           Dev!Rank[Now(j)] <= Dev!Rank[Now(j)'], Now(j) \in Progress
    PROVE  Alive'
<1>1. Dev!Apis' = Dev!Apis /\ Dev!Apis \subseteq Processes
    BY Deployed DEF Dev!Apis, LocalInv
<1>2. AtHome(j)'
    <2>1. told'[j] = told[j] /\ told[j] \in Progress /\ Dev!Rank[told[j]] <= Dev!Rank[Now(j)]
        BY DEF Alive, AtHome
    <2>2. Now(j)' \in Progress
        BY DEF Progress
    <2>3. Dev!Rank[told[j]] \in Nat /\ Dev!Rank[Now(j)] \in Nat /\ Dev!Rank[Now(j)'] \in Nat
        BY <2>1, <2>2, Ranks
    <2>4. Dev!Rank[told'[j]] <= Dev!Rank[Now(j)']
        BY <2>1, <2>3
    <2> QED BY <1>1, <2>1, <2>4 DEF AtHome
<1>3. ASSUME NEW k \in Jobs \ {j} PROVE AtHome(k)' /\ Now(k)' = Now(k)
    <2>1. Alone(k) /\ AtHome(k)
        BY DEF Only, Alive
    <2>2. Now(k)' = Now(k)
        BY <2>1 DEF LocalInv, Typed, Now, Mine, Alone
    <2> QED BY <1>1, <2>1, <2>2 DEF AtHome, Alone
<1>5. \A k \in Jobs : Dev!Rank[Now(k)] <= Dev!Rank[Now(k)'] /\ Dev!Rank[Now(k)] \in Nat
      /\ Dev!Rank[Now(k)'] \in Nat
    <2> SUFFICES ASSUME NEW k \in Jobs
                 PROVE  Dev!Rank[Now(k)] <= Dev!Rank[Now(k)'] /\ Dev!Rank[Now(k)] \in Nat
                        /\ Dev!Rank[Now(k)'] \in Nat
        OBVIOUS
    <2>1. Now(j)' \in Progress
        BY DEF Progress
    <2>2. CASE k = j
        BY <2>1, <2>2, Ranks
    <2>3. CASE k # j
        <3>1. Now(k)' = Now(k)
            BY <1>3, <2>3
        <3>2. Now(k) \in Progress
            BY DEF Alive, AtHome, Now, Progress, LocalInv, StageInv
        <3> QED BY <3>1, <3>2, Ranks
    <2> QED BY <2>2, <2>3
<1>6. ASSUME NEW k \in Jobs, client'.pc = "memory", client'.job = k, Dev!Readable(client'.disk)
      PROVE  /\ client'.disk.status \in LocalStatus
             /\ Dev!Rank[told'[k]] <= Dev!Rank[client'.disk.status]
             /\ Dev!Rank[client'.disk.status] <= Dev!Rank[Now(k)']
    <2>0. client.pc = "memory" /\ client.job = k /\ Dev!Readable(client.disk)
        BY <1>6
    <2>1. /\ client.disk.status \in LocalStatus
          /\ Dev!Rank[told[k]] <= Dev!Rank[client.disk.status]
          /\ Dev!Rank[client.disk.status] <= Dev!Rank[Now(k)]
        BY <2>0 DEF Alive
    <2>2. Dev!Rank[client.disk.status] \in Nat
        BY <2>1, Ranks DEF Progress
    <2> QED BY <1>5, <2>1, <2>2
<1>7. \A k \in Jobs : AtHome(k)'
    BY <1>2, <1>3
<1> QED BY <1>6, <1>7 DEF Alive
\* What a step of the thread of job j must leave behind.
Leaves(j) ==
    /\ Only(j) /\ stage[j] # "ended" /\ UNCHANGED <<deployment, client, told, restarts>>
    /\ Dev!Workers # {} =>
          /\ \A a \in Dev!Apis : memory'[a][j].status \in {"absent", "queued"}
          /\ stage'[j] \in {"starting", "running", "ending", "caught", "failing"}
                => owner'[j] \in Dev!Workers
    /\ Dev!Workers = {} /\ Alive =>
          /\ stage'[j] # "new" /\ owner'[j] \in Dev!Apis /\ Now(j)' \in LocalStatus
          /\ Dev!Readable(file'[j]) => file'[j].status = Now(j)'
          /\ Dev!Rank[Now(j)] <= Dev!Rank[Now(j)'] /\ Now(j) \in Progress

LEMMA ThreadStep ==
    ASSUME ToldInv, LocalInv', NEW j \in Jobs, Leaves(j)
    PROVE  ToldInv' /\ told' = told
<1>1. Dev!Apis' = Dev!Apis /\ Dev!Workers' = Dev!Workers
    BY DEF Leaves, Dev!Apis, Dev!Workers
<1>2. restarts' = restarts /\ client' = client /\ told' = told /\ deployment' = deployment
    BY DEF Leaves
<1>3. Dev!Workers # {} => Shared'
    BY SharedStep DEF ToldInv, Leaves
<1>4. Dev!Workers = {} /\ restarts = 0 => Alive'
    BY AliveStep DEF ToldInv, Leaves
<1> QED BY <1>1, <1>2, <1>3, <1>4 DEF ToldInv

\* The status that a write of process p begins with, as the rest of the process sees it.
LEMMA NewStatus ==
    ASSUME LocalInv, NEW p \in Processes, NEW j \in Jobs, NEW s \in LocalStatus, Wrote(p, j, s)
    PROVE  /\ Now(j)' = s /\ memory'[p][j].status = s /\ ~Dev!Readable(file'[j])
           /\ \A q \in Processes \ {p} : memory'[q][j] = memory[q][j]
BY Deployed, NoneAndTorn DEF LocalInv, Wrote, Shows, Now, Mine, Dev!Readable

LEMMA KnownStatus ==
    ASSUME LocalInv, NEW j \in Jobs, owner[j] \in Processes
    PROVE  Now(j) = Mine(j).status
BY Deployed DEF LocalInv, Now

LEMMA SubmitTold ==
    ASSUME ToldInv, NEW p \in Dev!Apis, NEW j \in Jobs, Dev!Submit(p, j)
    PROVE  ToldInv' /\ told' = told
<1>1. LocalInv /\ LocalInv' /\ owner[j] = NoProcess /\ Wrote(p, j, "queued")
    BY SubmitKeeps DEF ToldInv
<1>2. p \in Processes /\ Dev!Apis \subseteq Processes /\ "queued" \in LocalStatus
    BY <1>1, Deployed DEF LocalInv, LocalStatus
<1>3. /\ Now(j)' = "queued" /\ memory'[p][j].status = "queued" /\ ~Dev!Readable(file'[j])
      /\ \A q \in Processes \ {p} : memory'[q][j] = memory[q][j]
    BY <1>1, <1>2, NewStatus
<1>4. /\ stage[j] = "new" /\ stage'[j] = "queueing" /\ owner'[j] = p
      /\ UNCHANGED <<deployment, client, told, restarts>>
    BY <1>1, <1>2 DEF Dev!Submit, Dev!budget, LocalInv, Typed
<1>5. Dev!Workers # {} => \A a \in Dev!Apis : memory'[a][j].status \in {"absent", "queued"}
    BY <1>2, <1>3 DEF ToldInv, Shared
<1>6. Now(j) = "absent"
    BY <1>1 DEF Now
<1>7. Dev!Rank[Now(j)] <= Dev!Rank[Now(j)'] /\ Now(j) \in Progress
    BY <1>3, <1>6, Ranks DEF Progress
<1>8. Leaves(j)
    BY <1>1, <1>2, <1>3, <1>4, <1>5, <1>7 DEF Leaves, Wrote
<1> QED BY <1>1, <1>8, ThreadStep

LEMMA StartTold ==
    ASSUME ToldInv, NEW p \in Processes, NEW j \in Jobs, Dev!Start(p, j)
    PROVE  ToldInv' /\ told' = told
<1>1. /\ LocalInv /\ LocalInv' /\ owner[j] \in Processes /\ Wrote(p, j, "running")
      /\ file[j].status = "queued"
    BY StartKeeps DEF ToldInv
<1>2. Dev!Apis \subseteq Processes /\ Dev!Apis \cap Dev!Workers = {} /\ "running" \in LocalStatus
    BY <1>1, Deployed DEF LocalInv, LocalStatus
<1>3. /\ Now(j)' = "running" /\ ~Dev!Readable(file'[j])
      /\ \A q \in Processes \ {p} : memory'[q][j] = memory[q][j]
    BY <1>1, <1>2, NewStatus
<1>4. /\ stage[j] = "published" /\ stage'[j] = "starting" /\ owner'[j] = p
      /\ UNCHANGED <<deployment, client, told, restarts>>
      /\ IF Dev!Workers = {} THEN p = owner[j] ELSE p \in Dev!Workers
    BY <1>1 DEF Dev!Start, Dev!budget, LocalInv, Typed
<1>5. Dev!Workers # {} => /\ \A a \in Dev!Apis : memory'[a][j].status \in {"absent", "queued"}
                          /\ owner'[j] \in Dev!Workers
    BY <1>2, <1>3, <1>4 DEF ToldInv, Shared
<1>6. Dev!Workers = {} /\ Alive => /\ owner'[j] \in Dev!Apis
                                   /\ Dev!Rank[Now(j)] <= Dev!Rank[Now(j)'] /\ Now(j) \in Progress
    <2> SUFFICES ASSUME Dev!Workers = {}, Alive
                 PROVE  owner'[j] \in Dev!Apis /\ Dev!Rank[Now(j)] <= Dev!Rank[Now(j)']
                        /\ Now(j) \in Progress
        OBVIOUS
    <2>1. owner[j] \in Dev!Apis /\ Now(j) = "queued"
        BY <1>1, <1>4 DEF Alive, AtHome, Dev!Readable
    <2> QED BY <1>3, <1>4, <2>1, Ranks DEF Progress, LocalStatus
<1>7. Leaves(j)
    BY <1>1, <1>2, <1>3, <1>4, <1>5, <1>6 DEF Leaves, Wrote
<1> QED BY <1>1, <1>7, ThreadStep

LEMMA EndTold ==
    ASSUME ToldInv, LocalInv', NEW j \in Jobs, NEW s \in Dev!Terminal, Wrote(owner[j], j, s),
           owner[j] \in Processes, stage'[j] \in {"ending", "failing"},
           UNCHANGED <<deployment, owner, client, told, restarts>>,
           \/ stage[j] = "running" /\ file[j].status = "running"
           \/ stage[j] = "caught" /\ Mine(j).status \in Dev!Terminal
    PROVE  ToldInv' /\ told' = told
<1>1. LocalInv /\ s \in LocalStatus
    BY DEF ToldInv, Dev!Terminal, LocalStatus
<1>2. Dev!Apis \subseteq Processes /\ Dev!Apis \cap Dev!Workers = {}
    BY <1>1, Deployed DEF LocalInv
<1>3. /\ Now(j)' = s /\ ~Dev!Readable(file'[j])
      /\ \A q \in Processes \ {owner[j]} : memory'[q][j] = memory[q][j]
    BY <1>1, NewStatus
<1>4. Dev!Workers # {} => /\ \A a \in Dev!Apis : memory'[a][j].status \in {"absent", "queued"}
                          /\ owner'[j] \in Dev!Workers
    BY <1>2, <1>3 DEF ToldInv, Shared
<1>5. Dev!Workers = {} /\ Alive => /\ owner'[j] \in Dev!Apis
                                   /\ Dev!Rank[Now(j)] <= Dev!Rank[Now(j)'] /\ Now(j) \in Progress
    <2> SUFFICES ASSUME Dev!Workers = {}, Alive
                 PROVE  owner'[j] \in Dev!Apis /\ Dev!Rank[Now(j)] <= Dev!Rank[Now(j)']
                        /\ Now(j) \in Progress
        OBVIOUS
    <2>1. owner[j] \in Dev!Apis
        BY DEF Alive, AtHome
    <2>2. Now(j) \in {"running", "completed", "failed"}
        BY <1>1, KnownStatus DEF Alive, AtHome, Dev!Readable, Dev!Terminal
    <2> QED BY <1>3, <2>1, <2>2, Ranks DEF Progress, LocalStatus, Dev!Terminal
<1>6. stage[j] # "ended" /\ stage'[j] # "new"
    OBVIOUS
<1>7. Leaves(j)
    BY <1>1, <1>3, <1>4, <1>5, <1>6 DEF Leaves, Wrote
<1> QED BY <1>7, ThreadStep

LEMMA FinishTold ==
    ASSUME ToldInv, NEW j \in Jobs, Dev!Finish(j)
    PROVE  ToldInv' /\ told' = told
<1>1. /\ LocalInv /\ LocalInv' /\ stage[j] = "running" /\ file[j].status = "running"
      /\ owner[j] \in Processes /\ \E s \in Dev!Terminal : Wrote(owner[j], j, s)
    BY FinishKeeps DEF ToldInv
<1>2. stage'[j] \in {"ending", "failing"} /\ UNCHANGED <<deployment, owner, client, told, restarts>>
    BY <1>1 DEF Dev!Finish, Dev!budget, LocalInv, Typed
<1> QED BY <1>1, <1>2, EndTold

LEMMA CatchTold ==
    ASSUME ToldInv, NEW j \in Jobs, Dev!Catch(j)
    PROVE  ToldInv' /\ told' = told
<1>1. /\ LocalInv /\ LocalInv' /\ Mine(j).status \in Dev!Terminal
      /\ owner[j] \in Processes /\ Wrote(owner[j], j, "failed") /\ "failed" \in Dev!Terminal
    BY CatchKeeps DEF ToldInv, Dev!Terminal
<1>2. /\ stage[j] = "caught" /\ stage'[j] \in {"ending", "failing"}
      /\ UNCHANGED <<deployment, owner, client, told, restarts>>
    BY <1>1 DEF Dev!Catch, Dev!budget, LocalInv, Typed
<1> QED BY <1>1, <1>2, EndTold

LEMMA CloseTold ==
    ASSUME ToldInv, NEW j \in Jobs, Dev!CloseWrite(j)
    PROVE  ToldInv' /\ told' = told
<1>1. /\ LocalInv /\ LocalInv' /\ Only(j) /\ stage[j] \in Dev!Writing /\ owner[j] \in Processes
      /\ file'[j] = Mine(j) /\ Mine(j).status \in LocalStatus /\ UNCHANGED <<memory, owner>>
    BY CloseKeeps DEF ToldInv
<1>2. /\ UNCHANGED <<deployment, client, told, restarts>>
      /\ stage' = [stage EXCEPT ![j] = CASE @ = "queueing" -> "published"
                                         [] @ = "starting" -> "running"
                                         [] OTHER -> "ended"]
    BY DEF Dev!CloseWrite, Dev!budget
<1>3. /\ stage'[j] \in {"published", "running", "ended"} /\ stage[j] # "ended"
      /\ stage'[j] = "running" => stage[j] = "starting"
    BY <1>1, <1>2 DEF LocalInv, Typed, Dev!Writing
<1>4. Now(j) = Mine(j).status /\ Now(j)' = Mine(j).status
    <2>1. Now(j) = Mine(j).status
        BY <1>1, KnownStatus
    <2>2. Now(j)' = Now(j)
        BY <1>1 DEF Now, Mine
    <2> QED BY <2>1, <2>2
<1>5. Dev!Workers # {} => /\ \A a \in Dev!Apis : memory'[a][j].status \in {"absent", "queued"}
                          /\ stage'[j] = "running" => owner'[j] \in Dev!Workers
    BY <1>1, <1>3 DEF ToldInv, Shared
<1>6. Dev!Rank[Now(j)] <= Dev!Rank[Now(j)'] /\ Now(j) \in Progress
    <2>1. Now(j) \in Progress /\ Now(j)' = Now(j)
        BY <1>1, <1>4 DEF Progress
    <2>2. Dev!Rank[Now(j)] \in Nat
        BY <2>1, Ranks
    <2> QED BY <2>1, <2>2
<1>7. Dev!Workers = {} /\ Alive => owner'[j] \in Dev!Apis
    BY <1>1, <1>3 DEF Alive, AtHome, Dev!Writing
<1>8. Leaves(j)
    BY <1>1, <1>2, <1>3, <1>4, <1>5, <1>6, <1>7 DEF Leaves
<1> QED BY <1>1, <1>8, ThreadStep

LEMMA WriteFailsTold ==
    ASSUME ToldInv, NEW j \in Jobs, Dev!WriteFails(j)
    PROVE  ToldInv' /\ told' = told
<1>1. LocalInv /\ LocalInv' /\ UNCHANGED <<memory, file, owner>>
    BY WriteFailsKeeps DEF ToldInv
<1>2. /\ stage[j] \in Dev!Writing /\ UNCHANGED <<deployment, client, told, restarts>>
      /\ stage' = [stage EXCEPT ![j] = IF @ = "ending" THEN "caught" ELSE "lost"]
    BY DEF Dev!WriteFails
<1>3. /\ Only(j) /\ stage'[j] \in {"caught", "lost"} /\ stage[j] \notin {"ended", "new"}
      /\ stage'[j] = "caught" => stage[j] = "ending"
    BY <1>1, <1>2 DEF LocalInv, Typed, Dev!Writing, Only, Alone
<1>4. file[j] = Dev!Torn
    BY <1>1, <1>2 DEF LocalInv, StageInv
<1>5. ~Dev!Readable(file'[j]) /\ Now(j)' = Now(j)
    BY <1>1, <1>4, NoneAndTorn DEF Dev!Readable, Now, Mine
<1>6. Dev!Workers = {} /\ Alive => /\ owner[j] \in Dev!Apis /\ Now(j) \in LocalStatus
                                   /\ Dev!Rank[Now(j)] <= Dev!Rank[Now(j)'] /\ Now(j) \in Progress
    <2> SUFFICES ASSUME Alive
                 PROVE  /\ owner[j] \in Dev!Apis /\ Now(j) \in LocalStatus
                        /\ Dev!Rank[Now(j)] <= Dev!Rank[Now(j)'] /\ Now(j) \in Progress
        OBVIOUS
    <2>1. owner[j] \in Dev!Apis /\ Now(j) \in LocalStatus
        BY <1>3 DEF Alive, AtHome
    <2>2. Dev!Rank[Now(j)] \in Nat /\ Now(j) \in Progress
        BY <2>1, Ranks DEF Progress
    <2> QED BY <1>5, <2>1, <2>2
<1>7. Dev!Workers # {} => /\ \A a \in Dev!Apis : memory'[a][j].status \in {"absent", "queued"}
                          /\ stage'[j] = "caught" => owner'[j] \in Dev!Workers
    BY <1>1, <1>3 DEF ToldInv, Shared
<1>8. Leaves(j)
    BY <1>1, <1>2, <1>3, <1>5, <1>6, <1>7 DEF Leaves
<1> QED BY <1>1, <1>8, ThreadStep

LEMMA CrashTold ==
    ASSUME ToldInv, NEW p \in Processes, Dev!Crash(p)
    PROVE  ToldInv' /\ told' = told
<1>1. /\ LocalInv /\ LocalInv' /\ UNCHANGED <<file, owner>>
      /\ \A q \in Processes, k \in Jobs : 
             memory'[q][k] = IF q = p THEN Dev!NoRecord ELSE memory[q][k]
    BY CrashKeeps DEF ToldInv
<1>2. /\ UNCHANGED <<deployment, told>> /\ restarts' = restarts + 1 /\ restarts \in Nat
      /\ client' = IF client.at = p THEN Dev!Idle ELSE client
    BY DEF Dev!Crash, ToldInv
<1>3. Dev!Apis' = Dev!Apis /\ Dev!Workers' = Dev!Workers /\ Dev!Apis \subseteq Processes
    BY <1>1, <1>2, Deployed DEF Dev!Apis, Dev!Workers, LocalInv
<1>4. restarts' \in Nat /\ restarts' # 0
    BY <1>2
<1>5. client'.pc = "memory" => client' = client
    BY <1>2 DEF Dev!Idle
<1>6. \A k \in Jobs : stage'[k] \in {stage[k], "lost"}
    BY <1>1 DEF Dev!Crash, LocalInv, Typed
<1>7. Dev!Workers # {} => Shared'
    BY <1>1, <1>2, <1>3, <1>5, <1>6, NoneAndTorn DEF ToldInv, Shared
<1> QED BY <1>1, <1>2, <1>3, <1>4, <1>5, <1>7 DEF ToldInv

\* The one process of a deployment without a broker.
OneProcess == \A d \in Deployments : d.workers = {} => \E p \in Processes : d.apis = {p}

LEMMA DiskTold ==
    ASSUME ToldInv, NEW p \in Dev!Apis, NEW j \in Jobs, Dev!ReadDisk(p, j)
    PROVE  ToldInv' /\ told' = told
<1>1. /\ LocalInv /\ LocalInv'
      /\ UNCHANGED <<deployment, memory, file, stage, owner, told, restarts>>
      /\ client' = [pc |-> "memory", at |-> p, disk |-> file[j], job |-> j]
    BY ReadingKeeps DEF ToldInv, Dev!ReadDisk, Dev!budget
<1>2. client'.pc = "memory" /\ client'.at = p /\ client'.disk = file[j] /\ client'.job = j
    BY <1>1
<1>3. Dev!Apis' = Dev!Apis /\ Dev!Workers' = Dev!Workers
    BY <1>1 DEF Dev!Apis, Dev!Workers
<1>4. Dev!Workers # {} => Shared'
    <2> SUFFICES ASSUME Dev!Workers # {} PROVE Shared'
        OBVIOUS
    <2>1. Shared
        BY DEF ToldInv
    <2>2. told[j] \in Dev!Terminal => file[j].status = told[j]
        BY <2>1 DEF Shared
    <2> QED BY <1>1, <1>2, <1>3, <2>1, <2>2 DEF Shared
<1>5. Dev!Workers = {} /\ restarts = 0 => Alive'
    <2> SUFFICES ASSUME Dev!Workers = {}, restarts = 0 PROVE Alive'
        OBVIOUS
    <2>1. Alive
        BY DEF ToldInv
    <2>2. \A k \in Jobs : Now(k)' = Now(k)
        BY <1>1 DEF Now, Mine
    <2>3. \A k \in Jobs : AtHome(k)'
        BY <1>1, <1>3, <2>1, <2>2 DEF Alive, AtHome
    <2>4. ASSUME Dev!Readable(file[j])
          PROVE  /\ file[j].status \in LocalStatus /\ Dev!Rank[told[j]] <= Dev!Rank[file[j].status]
                 /\ Dev!Rank[file[j].status] <= Dev!Rank[Now(j)]
        <3>1. AtHome(j) /\ file[j].status = Now(j)
            BY <2>1, <2>4 DEF Alive, AtHome
        <3>2. stage[j] # "new"
            BY <1>1, <2>4, NoneAndTorn DEF LocalInv, StageInv, Dev!Readable
        <3>3. Now(j) \in LocalStatus /\ Dev!Rank[told[j]] <= Dev!Rank[Now(j)]
            BY <3>1, <3>2 DEF AtHome
        <3>4. Dev!Rank[Now(j)] \in Nat
            BY <3>3, Ranks DEF Progress
        <3> QED BY <3>1, <3>3, <3>4
    <2>5. \A k \in Jobs :
              client'.pc = "memory" /\ client'.job = k /\ Dev!Readable(client'.disk) =>
                  /\ client'.disk.status \in LocalStatus
                  /\ Dev!Rank[told'[k]] <= Dev!Rank[client'.disk.status]
                  /\ Dev!Rank[client'.disk.status] <= Dev!Rank[Now(k)']
        BY <1>1, <1>2, <2>2, <2>4
    <2> QED BY <2>3, <2>5 DEF Alive
<1> QED BY <1>1, <1>2, <1>3, <1>4, <1>5 DEF ToldInv

\* What a client is told: the status of what was read from the disk, or that of the memory.
LEMMA ViewSays ==
    ASSUME NEW disk, NEW mem
    PROVE  Dev!View(disk, mem).status = IF Dev!Readable(disk) THEN disk.status ELSE mem.status
BY DEF Dev!View, Dev!Record

\* The client is told status x of job j.
LEMMA MemoryReads ==
    ASSUME LocalInv, Dev!ReadMemory
    PROVE  \E j \in Jobs :
              /\ client.job = j /\ client.at \in Processes
              /\ told' = [told EXCEPT ![j] = IF Dev!Readable(client.disk) THEN client.disk.status
                                             ELSE memory[client.at][j].status]
              /\ stage[j] \in Dev!Writing => owner[j] # client.at
<1>1. client.job \in Jobs /\ client.at \in Processes
    BY DEF Dev!ReadMemory, LocalInv, Typed, Dev!Idle
<1>2. told' = [told EXCEPT ![client.job] =
                    Dev!View(client.disk, memory[client.at][client.job]).status]
    BY DEF Dev!ReadMemory
<1> DEFINE said == Dev!View(client.disk, memory[client.at][client.job]).status
<1>3. said = IF Dev!Readable(client.disk) THEN client.disk.status
             ELSE memory[client.at][client.job].status
    BY ViewSays
<1>4. told' = [told EXCEPT ![client.job] = said]
    BY <1>2
<1> HIDE DEF said
<1>5. client.job \in Jobs /\ stage[client.job] \in Dev!Writing => owner[client.job] # client.at
    BY <1>1 DEF Dev!ReadMemory
<1> QED BY <1>1, <1>3, <1>4, <1>5

LEMMA MemoryTold ==
    ASSUME OneProcess, ToldInv, Dev!ReadMemory
    PROVE  /\ ToldInv'
           /\ \A k \in Jobs :
                 /\ Dev!Workers = {} /\ restarts' = 0 => Dev!Rank[told'[k]] >= Dev!Rank[told[k]]
                 /\ Dev!Workers # {} /\ told[k] \in Dev!Terminal => told'[k] = told[k]
<1>1. LocalInv /\ LocalInv'
    BY ReadingKeeps DEF ToldInv
<1>2. /\ UNCHANGED <<deployment, memory, file, stage, owner, restarts>>
      /\ client.pc = "memory" /\ client'.pc = "idle"
    BY DEF Dev!ReadMemory, Dev!budget, Dev!Idle
<1>3. PICK j \in Jobs :
              /\ client.job = j /\ client.at \in Processes
              /\ told' = [told EXCEPT ![j] = IF Dev!Readable(client.disk) THEN client.disk.status
                                             ELSE memory[client.at][j].status]
              /\ stage[j] \in Dev!Writing => owner[j] # client.at
    BY <1>1, MemoryReads
<1> DEFINE said == IF Dev!Readable(client.disk) THEN client.disk.status
                   ELSE memory[client.at][j].status
<1>4. /\ told'[j] = said /\ \A k \in Jobs \ {j} : told'[k] = told[k]
      /\ told' = [k \in Jobs |-> told'[k]]
    <2>1. told' = [told EXCEPT ![j] = said]
        BY <1>3
    <2>2. told = [k \in Jobs |-> told[k]]
        BY DEF ToldInv
    <2> HIDE DEF said
    <2> QED BY <2>1, <2>2
<1>5. Dev!Apis' = Dev!Apis /\ Dev!Workers' = Dev!Workers /\ client.at \in Dev!Apis
    BY <1>2 DEF Dev!Apis, Dev!Workers, ToldInv
<1>6. \A k \in Jobs : Now(k)' = Now(k)
    BY <1>2 DEF Now, Mine
<1>7. ASSUME Dev!Workers # {}
      PROVE  Shared' /\ \A k \in Jobs : told[k] \in Dev!Terminal => told'[k] = told[k]
    <2>1. Shared
        BY <1>7 DEF ToldInv
    <2>2. /\ client.disk.status \in Dev!Terminal => file[j].status = client.disk.status
          /\ told[j] \in Dev!Terminal => client.disk.status = told[j]
          /\ memory[client.at][j].status \notin Dev!Terminal
        BY <1>2, <1>3, <1>5, <2>1 DEF Shared, Dev!Terminal
    <2>3. told[j] \in Dev!Terminal => said = told[j]
        BY <2>2 DEF Dev!Readable, Dev!Terminal
    <2>4. said \in Dev!Terminal => file[j].status = said
        BY <2>2
    <2> HIDE DEF said
    <2>5. \A k \in Jobs : told'[k] \in Dev!Terminal => file'[k].status = told'[k]
        BY <1>2, <1>4, <2>1, <2>4 DEF Shared
    <2> QED BY <1>2, <1>4, <1>5, <2>1, <2>3, <2>5 DEF Shared
<1>8. ASSUME Dev!Workers = {}, restarts' = 0
      PROVE  Alive' /\ \A k \in Jobs : Dev!Rank[told'[k]] >= Dev!Rank[told[k]]
    <2>1. Alive
        BY <1>2, <1>8 DEF ToldInv
    <2>2. AtHome(j) /\ \A k \in Jobs : AtHome(k)
        BY <2>1 DEF Alive
    <2>3. ~Dev!Readable(client.disk) => memory[client.at][j].status = Now(j)
        <3>1. CASE stage[j] = "new"
            BY <1>1, <1>3, <2>2, <3>1, NoneAndTorn DEF AtHome, Now, LocalInv, StageInv
        <3>2. CASE stage[j] # "new"
            <4>1. owner[j] \in Dev!Apis
                BY <2>2, <3>2 DEF AtHome
            <4>2. owner[j] = client.at
                BY <1>1, <1>5, <1>8, <4>1 DEF OneProcess, Dev!Apis, Dev!Workers, LocalInv, Typed
            <4>3. owner[j] # NoProcess
                BY <1>1, <1>3, <4>2, Deployed DEF LocalInv
            <4> QED BY <4>2, <4>3 DEF Now, Mine
        <3> QED BY <3>1, <3>2
    <2>4. Now(j) \in Progress
        BY <1>1, <2>2 DEF AtHome, Now, Progress, LocalInv, StageInv
    <2>5. said \in Progress /\ Dev!Rank[told[j]] <= Dev!Rank[said]
          /\ Dev!Rank[said] <= Dev!Rank[Now(j)]
        <3>1. CASE Dev!Readable(client.disk)
            <4>1. /\ client.disk.status \in LocalStatus
                  /\ Dev!Rank[told[j]] <= Dev!Rank[client.disk.status]
                  /\ Dev!Rank[client.disk.status] <= Dev!Rank[Now(j)]
                BY <1>2, <1>3, <2>1, <3>1 DEF Alive
            <4> QED BY <3>1, <4>1 DEF Progress
        <3>2. CASE ~Dev!Readable(client.disk)
            <4>1. said = Now(j)
                BY <2>3, <3>2
            <4>2. Dev!Rank[Now(j)] \in Nat /\ Dev!Rank[told[j]] <= Dev!Rank[Now(j)]
                BY <2>2, <2>4, Ranks DEF AtHome
            <4> HIDE DEF said
            <4> QED BY <2>4, <4>1, <4>2
        <3> QED BY <3>1, <3>2
    <2> HIDE DEF said
    <2>6. \A k \in Jobs : /\ told'[k] \in Progress /\ Dev!Rank[told[k]] <= Dev!Rank[told'[k]]
                          /\ Dev!Rank[told'[k]] <= Dev!Rank[Now(k)]
        <3> SUFFICES ASSUME NEW k \in Jobs
                     PROVE  /\ told'[k] \in Progress /\ Dev!Rank[told[k]] <= Dev!Rank[told'[k]]
                            /\ Dev!Rank[told'[k]] <= Dev!Rank[Now(k)]
            OBVIOUS
        <3>1. CASE k = j
            BY <1>4, <2>5, <3>1
        <3>2. CASE k # j
            <4>1. told'[k] = told[k] /\ told[k] \in Progress
                  /\ Dev!Rank[told[k]] <= Dev!Rank[Now(k)]
                BY <1>4, <2>2, <3>2 DEF AtHome
            <4>2. Dev!Rank[told[k]] \in Nat
                BY <4>1, Ranks
            <4> QED BY <4>1, <4>2
        <3> QED BY <3>1, <3>2
    <2>7. \A k \in Jobs : AtHome(k)'
        BY <1>2, <1>5, <1>6, <2>2, <2>6 DEF AtHome
    <2>8. Alive'
        BY <1>2, <2>7 DEF Alive
    <2>9. ASSUME NEW k \in Jobs PROVE Dev!Rank[told'[k]] >= Dev!Rank[told[k]]
        <3>1. told[k] \in Progress
            BY <2>2 DEF AtHome
        <3>4. told'[k] \in Progress /\ Dev!Rank[told[k]] <= Dev!Rank[told'[k]]
            BY <2>6
        <3>2. Dev!Rank[told[k]] \in Nat
            BY <3>1, Ranks
        <3>3. Dev!Rank[told'[k]] \in Nat
            BY <3>4, Ranks
        <3> QED BY <3>2, <3>3, <3>4
    <2> QED BY <2>8, <2>9
<1>9. ToldInv'
    BY <1>1, <1>2, <1>4, <1>5, <1>7, <1>8 DEF ToldInv
<1> QED BY <1>7, <1>8, <1>9

LEMMA StutterTold ==
    ASSUME ToldInv, UNCHANGED Dev!vars
    PROVE  ToldInv' /\ told' = told
<1>1. LocalInv'
    BY ReadingKeeps DEF ToldInv
<1>2. UNCHANGED <<deployment, memory, file, stage, owner, client, told, restarts>>
    BY DEF Dev!vars, Dev!budget
<1>3. Dev!Apis' = Dev!Apis /\ Dev!Workers' = Dev!Workers /\ \A k \in Jobs : Now(k)' = Now(k)
    BY <1>2 DEF Dev!Apis, Dev!Workers, Now, Mine
<1>4. Shared => Shared'
    BY <1>2, <1>3 DEF Shared
<1>5. Alive => Alive'
    BY <1>2, <1>3 DEF Alive, AtHome
<1> QED BY <1>1, <1>2, <1>3, <1>4, <1>5 DEF ToldInv

\* What a step of the service may do with what clients are told.
DoesNotGoBack ==
    \A j \in Jobs :
       /\ Dev!Workers = {} /\ restarts' = 0 => Dev!Rank[told'[j]] >= Dev!Rank[told[j]]
       /\ Dev!Workers # {} /\ told[j] \in Dev!Terminal => told'[j] = told[j]

\* While no process has crashed, what was told of a job has a rank.
LEMMA ToldNothing ==
    ASSUME ToldInv, ToldInv', told' = told, deployment' = deployment
    PROVE  DoesNotGoBack
<1>1. Dev!Workers' = Dev!Workers
    BY DEF Dev!Workers
<1>2. ASSUME NEW j \in Jobs, Dev!Workers = {}, restarts' = 0
      PROVE Dev!Rank[told'[j]] >= Dev!Rank[told[j]]
    <2>1. told'[j] \in Progress
        BY <1>1, <1>2 DEF ToldInv, Alive, AtHome
    <2>2. Dev!Rank[told'[j]] \in Nat
        BY <2>1, Ranks
    <2> QED BY <2>2
<1> QED BY <1>2 DEF DoesNotGoBack

LEMMA ToldSteps == OneProcess /\ ToldInv /\ [Dev!Next]_(Dev!vars) => ToldInv' /\ DoesNotGoBack
<1> SUFFICES ASSUME OneProcess, ToldInv, [Dev!Next]_(Dev!vars) PROVE ToldInv' /\ DoesNotGoBack
    OBVIOUS
<1>1. Dev!Apis \cup Dev!Workers \subseteq Processes
    BY Deployed DEF ToldInv, LocalInv
<1>2. deployment' = deployment
    BY DEF Dev!Next, Dev!Advance, Dev!Submit, Dev!Start, Dev!Finish, Dev!Catch,
           Dev!CloseWrite, Dev!WriteFails, Dev!Crash, Dev!ReadDisk,
           Dev!ReadMemory, Dev!vars
<1>3. CASE Dev!ReadMemory
    BY <1>3, MemoryTold DEF DoesNotGoBack
<1>4. CASE ~Dev!ReadMemory
    <2>1. ToldInv' /\ told' = told
        BY <1>1, <1>4, SubmitTold, StartTold, FinishTold, CatchTold, CloseTold, WriteFailsTold,
           CrashTold, DiskTold, StutterTold DEF Dev!Next, Dev!Advance
    <2> QED BY <1>2, <2>1, ToldNothing
<1> QED BY <1>3, <1>4

\* What clients are told does not go back, although get reads status.json without
\* the lock and then the memory: with one process no job returns to an earlier
\* status, and with workers an outcome stays, in every deployment that has one API
\* process if it has no broker.
THEOREM ToldStays == ProcessesApart /\ OneProcess => (Dev!Spec => Dev!ToldDoesNotGoBack)
<1> SUFFICES ASSUME ProcessesApart, OneProcess PROVE Dev!Spec => Dev!ToldDoesNotGoBack
    OBVIOUS
<1>1. Dev!Init => ToldInv
    BY InitTold
<1>2. ToldInv /\ [Dev!Next]_(Dev!vars) =>
          /\ ToldInv'
          /\ [\A j \in Jobs :
                 /\ Dev!Workers = {} /\ restarts' = 0 => Dev!Rank[told'[j]] >= Dev!Rank[told[j]]
                 /\ Dev!Workers # {} /\ told[j] \in Dev!Terminal => told'[j] = told[j]]_(Dev!vars)
    BY ToldSteps DEF DoesNotGoBack
<1> QED BY <1>1, <1>2, PTL DEF Dev!Spec, Dev!ToldDoesNotGoBack
(***************************************************************************)
(* Types, the lock and the bounds.                                         *)
(***************************************************************************)

FaultsBounded == MaxFaults \in Nat /\ \A d \in Deployments : d.faults \in 0 .. MaxFaults

Remembered ==
    /\ \A p \in Processes, j \in Jobs : memory[p][j].status # "torn"
    /\ client.pc = "memory" => client.disk \in Dev!Records
    /\ told \in [Jobs -> Progress]

OneWriter ==
    \A j, k \in Jobs : j # k /\ {stage[j], stage[k]} \subseteq Dev!Writing => owner[j] # owner[k]

Bounded == restarts \in Nat /\ badWrites \in Nat /\ restarts + badWrites <= deployment.faults

WholeInv == LocalInv /\ Remembered /\ OneWriter /\ Bounded

LEMMA InitWhole == ProcessesApart /\ FaultsBounded /\ Dev!Init => WholeInv
<1> SUFFICES ASSUME ProcessesApart, FaultsBounded, Dev!Init PROVE WholeInv
    OBVIOUS
<1>1. LocalInv
    BY InitLocal
<1>2. Remembered
    BY NoneAndTorn DEF Dev!Init, Remembered, Progress, Dev!Idle
<1>3. OneWriter
    BY DEF Dev!Init, OneWriter, Dev!Writing
<1>4. Bounded
    BY DEF Dev!Init, Bounded, FaultsBounded
<1> QED BY <1>1, <1>2, <1>3, <1>4 DEF WholeInv

\* A thread of process p that finds the lock free begins a write for job j.
LEMMA WholeWrite ==
    ASSUME WholeInv, LocalInv', NEW p \in Processes, NEW j \in Jobs, NEW s \in LocalStatus,
           Wrote(p, j, s),
           \A k \in Jobs : stage[k] \in Dev!Writing => owner[k] # p,
           UNCHANGED <<deployment, client, told, Dev!budget>>
    PROVE  WholeInv'
<1>1. /\ \A k \in Jobs \ {j} : /\ stage'[k] = stage[k] /\ owner'[k] = owner[k]
                               /\ \A q \in Processes : memory'[q][k] = memory[q][k]
      /\ owner'[j] = p /\ memory'[p][j].status = s
      /\ \A q \in Processes \ {p} : memory'[q][j] = memory[q][j]
    BY DEF Wrote, Only, Alone, Shows, Mine
<1>2. s # "torn"
    BY DEF LocalStatus
<1>3. OneWriter'
    BY <1>1 DEF WholeInv, OneWriter
<1>4. Remembered'
    BY <1>1, <1>2 DEF WholeInv, Remembered
<1>5. Bounded'
    BY DEF WholeInv, Bounded, Dev!budget
<1> QED BY <1>3, <1>4, <1>5 DEF WholeInv

\* A write ends, or fails, or the process does.
LEMMA WholeLeave ==
    ASSUME WholeInv, LocalInv', UNCHANGED <<deployment, owner, told>>,
           \A k \in Jobs : stage'[k] = stage[k] \/ stage'[k] \notin Dev!Writing,
           \A p \in Processes, k \in Jobs : memory'[p][k] \in {memory[p][k], Dev!NoRecord},
           client' \in {client, Dev!Idle}, Bounded'
    PROVE  WholeInv'
<1>1. OneWriter'
    BY DEF WholeInv, OneWriter
<1>2. Remembered'
    BY NoneAndTorn DEF WholeInv, Remembered, Dev!Idle
<1> QED BY <1>1, <1>2 DEF WholeInv

LEMMA OneMoreFault ==
    ASSUME Bounded, deployment \in Deployments, FaultsBounded,
           restarts + badWrites < deployment.faults, UNCHANGED deployment,
           \/ restarts' = restarts + 1 /\ badWrites' = badWrites
           \/ badWrites' = badWrites + 1 /\ restarts' = restarts
    PROVE  Bounded'
<1>1. deployment.faults \in Nat
    BY DEF FaultsBounded
<1> QED BY <1>1 DEF Bounded

LEMMA WholeReads ==
    ASSUME WholeInv, LocalInv', Dev!ReadMemory
    PROVE  WholeInv'
<1>1. PICK j \in Jobs :
              /\ client.job = j /\ client.at \in Processes
              /\ told' = [told EXCEPT ![j] = IF Dev!Readable(client.disk) THEN client.disk.status
                                             ELSE memory[client.at][j].status]
    BY MemoryReads DEF WholeInv
<1>2. /\ UNCHANGED <<deployment, memory, stage, owner, restarts, badWrites>>
      /\ client.pc = "memory" /\ client'.pc = "idle"
    BY DEF Dev!ReadMemory, Dev!budget, Dev!Idle
<1> DEFINE said == IF Dev!Readable(client.disk) THEN client.disk.status
                   ELSE memory[client.at][j].status
<1>3. said \in Progress
    <2>1. client.disk \in Dev!Records /\ memory[client.at][j] \in Dev!Records
          /\ memory[client.at][j].status # "torn"
        BY <1>1, <1>2 DEF WholeInv, Remembered, LocalInv, Typed
    <2>2. /\ client.disk.status \in Progress \cup {"torn"}
          /\ memory[client.at][j].status \in Progress \cup {"torn"}
        BY <2>1 DEF Dev!Records, Dev!Terminal, Progress, LocalStatus
    <2> QED BY <2>1, <2>2 DEF Dev!Readable
<1>4. told' = [told EXCEPT ![j] = said]
    BY <1>1
<1> HIDE DEF said
<1>5. Remembered'
    BY <1>2, <1>3, <1>4 DEF WholeInv, Remembered
<1>6. OneWriter' /\ Bounded'
    BY <1>2 DEF WholeInv, OneWriter, Bounded
<1> QED BY <1>5, <1>6 DEF WholeInv

LEMMA WholeSteps == FaultsBounded /\ WholeInv /\ [Dev!Next]_(Dev!vars) => WholeInv'
<1> SUFFICES ASSUME FaultsBounded, WholeInv, [Dev!Next]_(Dev!vars) PROVE WholeInv'
    OBVIOUS
<1>0. LocalInv /\ LocalInv' /\ Dev!Apis \cup Dev!Workers \subseteq Processes
      /\ deployment \in Deployments
    BY LocalSteps, Deployed DEF WholeInv, LocalInv, Typed
<1>1. ASSUME NEW p \in Dev!Apis, NEW j \in Jobs, Dev!Submit(p, j) PROVE WholeInv'
    <2>1. Wrote(p, j, "queued") /\ "queued" \in LocalStatus
        BY <1>0, <1>1, SubmitKeeps DEF LocalStatus
    <2>2. /\ \A k \in Jobs : stage[k] \in Dev!Writing => owner[k] # p
          /\ UNCHANGED <<deployment, client, told, Dev!budget>>
        BY <1>1 DEF Dev!Submit, Dev!OpenWrite
    <2> QED BY <1>0, <2>1, <2>2, WholeWrite
<1>2. ASSUME NEW p \in Processes, NEW j \in Jobs, Dev!Start(p, j) PROVE WholeInv'
    <2>1. Wrote(p, j, "running") /\ "running" \in LocalStatus
        BY <1>0, <1>2, StartKeeps DEF LocalStatus
    <2>2. /\ \A k \in Jobs : stage[k] \in Dev!Writing => owner[k] # p
          /\ UNCHANGED <<deployment, client, told, Dev!budget>>
        BY <1>2 DEF Dev!Start, Dev!OpenWrite
    <2> QED BY <1>0, <2>1, <2>2, WholeWrite
<1>3. ASSUME NEW j \in Jobs, Dev!Finish(j) \/ Dev!Catch(j) PROVE WholeInv'
    <2>1. PICK s \in Dev!Terminal : Wrote(owner[j], j, s) /\ owner[j] \in Processes
        BY <1>0, <1>3, FinishKeeps, CatchKeeps DEF Dev!Terminal
    <2>2. /\ \A k \in Jobs : stage[k] \in Dev!Writing => owner[k] # owner[j]
          /\ UNCHANGED <<deployment, client, told, Dev!budget>>
        BY <1>3 DEF Dev!Finish, Dev!Catch, Dev!OpenWrite
    <2>3. s \in LocalStatus
        BY DEF Dev!Terminal, LocalStatus
    <2> QED BY <1>0, <2>1, <2>2, <2>3, WholeWrite
<1>4. ASSUME NEW j \in Jobs, Dev!CloseWrite(j) PROVE WholeInv'
    <2>1. /\ UNCHANGED <<deployment, memory, owner, client, told, restarts, badWrites>>
          /\ \A k \in Jobs : stage'[k] = stage[k] \/ stage'[k] \notin Dev!Writing
        BY <1>0, <1>4 DEF Dev!CloseWrite, Dev!budget, LocalInv, Typed, Dev!Writing
    <2>2. Bounded'
        BY <2>1 DEF WholeInv, Bounded
    <2> QED BY <1>0, <2>1, <2>2, WholeLeave
<1>5. ASSUME NEW j \in Jobs, Dev!WriteFails(j) PROVE WholeInv'
    <2>1. /\ UNCHANGED <<deployment, memory, owner, client, told>>
          /\ \A k \in Jobs : stage'[k] = stage[k] \/ stage'[k] \notin Dev!Writing
        BY <1>0, <1>5 DEF Dev!WriteFails, LocalInv, Typed, Dev!Writing
    <2>2. Bounded'
        BY <1>0, <1>5, OneMoreFault DEF Dev!WriteFails, WholeInv
    <2> QED BY <1>0, <2>1, <2>2, WholeLeave
<1>6. ASSUME NEW p \in Processes, Dev!Crash(p) PROVE WholeInv'
    <2>1. /\ UNCHANGED <<deployment, owner, told>> /\ client' \in {client, Dev!Idle}
          /\ \A k \in Jobs : stage'[k] = stage[k] \/ stage'[k] \notin Dev!Writing
        BY <1>0, <1>6 DEF Dev!Crash, LocalInv, Typed, Dev!Writing
    <2>2. \A q \in Processes, k \in Jobs : memory'[q][k] \in {memory[q][k], Dev!NoRecord}
        BY <1>0, <1>6, CrashKeeps
    <2>3. Bounded'
        BY <1>0, <1>6, OneMoreFault DEF Dev!Crash, WholeInv
    <2> QED BY <1>0, <2>1, <2>2, <2>3, WholeLeave
<1>7. ASSUME NEW p \in Dev!Apis, NEW j \in Jobs, Dev!ReadDisk(p, j) PROVE WholeInv'
    <2>1. /\ UNCHANGED <<deployment, memory, stage, owner, told, restarts, badWrites>>
          /\ client'.disk = file[j] /\ file[j] \in Dev!Records
        BY <1>0, <1>7 DEF Dev!ReadDisk, Dev!budget, LocalInv, Typed
    <2>2. Remembered' /\ OneWriter' /\ Bounded'
        BY <2>1 DEF WholeInv, Remembered, OneWriter, Bounded
    <2> QED BY <1>0, <2>2 DEF WholeInv
<1>8. CASE Dev!ReadMemory
    BY <1>0, <1>8, WholeReads
<1>9. CASE UNCHANGED Dev!vars
    <2>1. UNCHANGED <<deployment, memory, stage, owner, client, told, restarts, badWrites>>
        BY <1>9 DEF Dev!vars, Dev!budget
    <2>2. Remembered' /\ OneWriter' /\ Bounded'
        BY <2>1 DEF WholeInv, Remembered, OneWriter, Bounded
    <2> QED BY <1>0, <2>2 DEF WholeInv
<1> QED BY <1>0, <1>1, <1>2, <1>3, <1>4, <1>5, <1>6, <1>7, <1>8, <1>9 DEF Dev!Next, Dev!Advance

LEMMA WholeIsTyped ==
    ASSUME FaultsBounded, WholeInv
    PROVE  Dev!TypeOK
<1>1. restarts \in 0 .. MaxFaults /\ badWrites \in 0 .. MaxFaults
    <2>1. deployment.faults \in 0 .. MaxFaults /\ MaxFaults \in Nat
        BY DEF FaultsBounded, WholeInv, LocalInv, Typed
    <2> QED BY <2>1 DEF WholeInv, Bounded
<1>2. told \in [Jobs -> {"absent", "queued", "running"} \cup Dev!Terminal]
    BY DEF WholeInv, Remembered, Progress, LocalStatus, Dev!Terminal
<1> QED BY <1>1, <1>2 DEF Dev!TypeOK, WholeInv, LocalInv, Typed, OneWriter, Stages

\* The variables of the development store keep their types, a process writes one
\* file at a time (_lock), and no more goes wrong than the deployment allows.
THEOREM LocalTypes == ProcessesApart /\ FaultsBounded => (Dev!Spec => []Dev!TypeOK)
<1> SUFFICES ASSUME ProcessesApart, FaultsBounded PROVE Dev!Spec => []Dev!TypeOK
    OBVIOUS
<1>1. Dev!Init => WholeInv
    BY InitWhole
<1>2. WholeInv /\ [Dev!Next]_(Dev!vars) => WholeInv'
    BY WholeSteps
<1>3. WholeInv => Dev!TypeOK
    BY WholeIsTyped
<1> QED BY <1>1, <1>2, <1>3, PTL DEF Dev!Spec
=============================================================================
