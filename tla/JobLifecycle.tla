---------------------------- MODULE JobLifecycle ----------------------------
(***************************************************************************)
(* What the compliance engine promises the client of its job API: a job is *)
(* submitted once, is queued, runs, and ends completed or failed; the      *)
(* reports of a completed job become downloadable together with the status *)
(* that announces them.  A job that a fault has hit may stop anywhere, but *)
(* keeps to the order.  Stores, brokers and processes do not appear here;  *)
(* ComplianceJobs and LocalJobs show how the code keeps the promise.       *)
(***************************************************************************)
CONSTANTS
    Jobs,           \* job ids
    Kinds,          \* kinds of reports that can be downloaded
    MayForget       \* TRUE if a fault may lose the record of a job

VARIABLES
    status,         \* status[j]: what GET /jobs/{j} answers
    listed,         \* listed[j]: the reports its result announces
    published,      \* published[j]: the reports of j a client can download
    hit             \* the jobs that a failed command or a crash has touched

lifecycle == <<status, listed, published, hit>>

Statuses == {"absent", "queued", "running", "completed", "failed"}
Terminal == {"completed", "failed"}

TypeOK ==
    /\ status \in [Jobs -> Statuses]
    /\ listed \in [Jobs -> SUBSET Kinds]
    /\ published \in [Jobs -> SUBSET Kinds]
    /\ hit \subseteq Jobs

Init ==
    /\ status = [j \in Jobs |-> "absent"]
    /\ listed = [j \in Jobs |-> {}]
    /\ published = [j \in Jobs |-> {}]
    /\ hit = {}

Submit(j) ==
    /\ status[j] = "absent"
    /\ status' = [status EXCEPT ![j] = "queued"]
    /\ UNCHANGED <<listed, published, hit>>

Start(j) ==
    /\ status[j] = "queued"
    /\ status' = [status EXCEPT ![j] = "running"]
    /\ UNCHANGED <<listed, published, hit>>

Complete(j) ==
    /\ status[j] = "running"
    /\ status' = [status EXCEPT ![j] = "completed"]
    /\ \E reports \in SUBSET Kinds :
          /\ listed' = [listed EXCEPT ![j] = reports]
          /\ published' = [published EXCEPT ![j] = reports]
    /\ UNCHANGED hit

Fail(j) ==
    /\ status[j] = "running"
    /\ status' = [status EXCEPT ![j] = "failed"]
    /\ UNCHANGED <<listed, published, hit>>

\* The write that announces the result fails half way and the job is failed
\* after a client may have seen it completed.
Retract(j) ==
    /\ j \in hit
    /\ status[j] = "completed"
    /\ status' = [status EXCEPT ![j] = "failed"]
    /\ listed' = [listed EXCEPT ![j] = {}]
    /\ published' = [published EXCEPT ![j] = {}]
    /\ UNCHANGED hit

\* A fault touches the jobs S, and the jobs F of them are not found any more.
Fault(S, F) ==
    /\ MayForget \/ F = {}
    /\ hit' = hit \cup S
    /\ status' = [j \in Jobs |-> IF j \in F THEN "absent" ELSE status[j]]
    /\ listed' = [j \in Jobs |-> IF j \in F THEN {} ELSE listed[j]]
    /\ published' = [j \in Jobs |-> IF j \in F THEN {} ELSE published[j]]

Next ==
    \/ \E j \in Jobs :
          Submit(j) \/ Start(j) \/ Complete(j) \/ Fail(j) \/ Retract(j)
    \/ \E S \in SUBSET Jobs : \E F \in SUBSET S : Fault(S, F)

\* A queued job is started and a running job is ended, unless a fault hit it.
Spec ==
    /\ Init /\ [][Next]_lifecycle
    /\ \A j \in Jobs : WF_lifecycle(j \notin hit /\ Start(j))
    /\ \A j \in Jobs : WF_lifecycle(j \notin hit /\ (Complete(j) \/ Fail(j)))
=============================================================================
