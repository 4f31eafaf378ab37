--------------------------- MODULE ComplianceProxy --------------------------
(***************************************************************************)
(* The Stage-1 orchestration endpoints (routes/compliance_routes.py) and   *)
(* the HTTP client behind them (services/compliance_client.py): one request*)
(* to Stage 1 becomes one or more requests to the compliance engine over a *)
(* network that delays and loses requests and answers.  The engine is the  *)
(* one that JobLifecycle describes.                                        *)
(***************************************************************************)
EXTENDS Naturals

CONSTANTS
    Callers,        \* request threads of Stage 1
    Jobs,
    PublicKinds,    \* the report kinds Stage 1 offers
    EngineKinds,    \* the report kinds the engine serves
    NoJob, NoKind,
    GetRetries,     \* COMPLIANCE_GET_RETRIES
    ReadTimeout,    \* ticks after which an unanswered request is given up
    WaitTimeout,    \* timeout_seconds of .../wait, in ticks
    MaxFaults       \* bound on faults of the network and of gateways

ASSUME NonesAssumption == NoJob \notin Jobs /\ NoKind \notin PublicKinds
ASSUME KindsAssumption == EngineKinds \subseteq PublicKinds
ASSUME TimeoutsAssumption ==
    GetRetries \in Nat /\ ReadTimeout \in Nat \ {0} /\ WaitTimeout \in Nat /\ MaxFaults \in Nat

VARIABLES
    status, listed, published,  \* the engine, see JobLifecycle
    call,       \* the request each thread is working on
    temp,       \* temp[c]: the request-scoped IFC file of c exists
    posts,      \* posts[c]: jobs the engine made for the submission of c
    spent,      \* spent[c]: ticks since the wait of c began; counted for waits only
    faults

engine == <<status, listed, published>>
proxyVars == <<engine, call, temp, posts, spent, faults>>

Engine == INSTANCE JobLifecycle WITH Kinds <- EngineKinds, MayForget <- FALSE, hit <- {}

Terminal == {"completed", "failed"}

\* attempt: the attempt under way, from 0; hung: ticks it has been without answer;
\* code: what the engine answered, or at the end what Stage 1 answers, with the job
\* status the answer shows.
Idle == [pc |-> "idle", op |-> "none", job |-> NoJob, kind |-> NoKind, attempt |-> 0, hung |-> 0,
         code |-> 0, body |-> "none", shows |-> "absent"]

ProxyInit ==
    /\ Engine!Init
    /\ call = [c \in Callers |-> Idle]
    /\ temp = [c \in Callers |-> FALSE]
    /\ posts = [c \in Callers |-> {}]
    /\ spent = [c \in Callers |-> 0]
    /\ faults = 0

At(c, pc) == call[c].pc = pc
Become(c, new) == call' = [call EXCEPT ![c] = new]

(***************************************************************************)
(* The four endpoints.                                                     *)
(***************************************************************************)
\* The file is written before the client is called: the uploaded IFC or the
\* exported one; an upload or an export that is refused ends here.
ArriveSubmit(c) ==
    /\ call[c].pc \in {"idle", "done"}
    /\ posts' = [posts EXCEPT ![c] = {}]
    /\ \/ /\ Become(c, [Idle EXCEPT !.pc = "sent", !.op = "submit"])
          /\ temp' = [temp EXCEPT ![c] = TRUE]
       \/ /\ \E code \in {400, 404} : Become(c, [Idle EXCEPT !.pc = "done", !.op = "submit", !.code = code])
          /\ temp' = [temp EXCEPT ![c] = FALSE]
    /\ spent' = [spent EXCEPT ![c] = 0]
    /\ UNCHANGED <<engine, faults>>

ArriveGet(c, op, j, k) ==
    /\ call[c].pc \in {"idle", "done"}
    /\ Become(c, [Idle EXCEPT !.pc = "sent", !.op = op, !.job = j, !.kind = k])
    /\ spent' = [spent EXCEPT ![c] = 0]
    /\ posts' = [posts EXCEPT ![c] = {}]
    /\ UNCHANGED <<engine, temp, faults>>

\* finally: the file is removed whatever happened.
Reply(c, code) ==
    /\ Become(c, [call[c] EXCEPT !.pc = "done", !.code = code, !.hung = 0])
    /\ temp' = [temp EXCEPT ![c] = FALSE]

(***************************************************************************)
(* The engine's end of a request (api/main.py).                            *)
(***************************************************************************)
Answer(c, code, shows) ==
    Become(c, [call[c] EXCEPT !.pc = "answered", !.code = code, !.body = "detail", !.shows = shows])

\* POST /analyze-ifc: a new job, or 400, 413 or 503.
HandleSubmit(c) ==
    /\ At(c, "sent") /\ call[c].op = "submit"
    /\ \/ \E j \in Jobs :
             /\ Engine!Submit(j)
             /\ posts' = [posts EXCEPT ![c] = @ \cup {j}]
             /\ Become(c, [call[c] EXCEPT !.pc = "answered", !.code = 200, !.job = j,
                                          !.shows = "queued"])
       \/ /\ \E code \in {400, 413, 503} : Answer(c, code, "absent")
          /\ UNCHANGED <<engine, posts>>
    /\ UNCHANGED <<temp, spent, faults>>

\* GET /jobs/{job_id}
HandleStatus(c) ==
    /\ At(c, "sent") /\ call[c].op \in {"status", "wait"}
    /\ LET shows == status[call[c].job] IN Answer(c, IF shows = "absent" THEN 404 ELSE 200, shows)
    /\ UNCHANGED <<engine, temp, posts, spent, faults>>

\* GET /jobs/{job_id}/report/{kind}
HandleReport(c) ==
    /\ At(c, "sent") /\ call[c].op = "report"
    /\ LET j == call[c].job
           code == IF call[c].kind \notin EngineKinds THEN 400
                   ELSE IF status[j] = "absent" THEN 404
                   ELSE IF status[j] # "completed" THEN 409
                   ELSE IF call[c].kind \notin published[j] THEN 404 ELSE 200
       IN Answer(c, code, status[j])
    /\ UNCHANGED <<engine, temp, posts, spent, faults>>

\* A gateway answers instead of the engine, with a page that is not JSON.
Gateway(c) ==
    /\ At(c, "sent")
    /\ faults < MaxFaults /\ faults' = faults + 1
    /\ \E code \in {502, 503, 504} :
          Become(c, [call[c] EXCEPT !.pc = "answered", !.code = code, !.body = "page"])
    /\ UNCHANGED <<engine, temp, posts, spent>>

(***************************************************************************)
(* ComplianceClient._request: what becomes of an attempt.                  *)
(***************************************************************************)
Attempts_RetryPosts(c) == GetRetries + 1

\* A submission is not idempotent and has one attempt.
Attempts(c) == IF call[c].op = "submit" THEN 1 ELSE GetRetries + 1

More(c) == call[c].attempt + 1 < Attempts(c)

\* After the backoff, the next attempt of the same request.
Again(c) ==
    /\ Become(c, [call[c] EXCEPT !.pc = "sent", !.attempt = @ + 1, !.hung = 0])
    /\ UNCHANGED temp

\* A status other than a success, mapped by _map_client_error: the body of an
\* engine error is a JSON object that has no "status", so all of them become 502;
\* only for a body that is not JSON is the status looked at.
PublicError(c) ==
    IF call[c].body = "detail" THEN 502
    ELSE CASE call[c].code = 404 -> 404 [] call[c].code = 409 -> 409
           [] call[c].code \in {400, 422} -> 400 [] OTHER -> 502

Refused(c) ==
    /\ At(c, "answered") /\ call[c].code >= 400
    /\ IF call[c].code \in {502, 503, 504} /\ More(c) THEN Again(c) ELSE Reply(c, PublicError(c))
    /\ UNCHANGED <<engine, posts, spent, faults>>

\* The request or its answer is lost: a ReadTimeout, once the time is over, ...
TimesOut_Never(c) == FALSE

TimesOut(c) ==
    /\ call[c].pc \in {"sent", "answered"} /\ call[c].hung >= ReadTimeout
    /\ IF More(c) THEN Again(c) ELSE Reply(c, 504)
    /\ UNCHANGED <<engine, posts, spent, faults>>

\* ... or a ConnectionError at any time.
ConnectionFails(c) ==
    /\ call[c].pc \in {"sent", "answered"}
    /\ faults < MaxFaults /\ faults' = faults + 1
    /\ IF More(c) THEN Again(c) ELSE Reply(c, 503)
    /\ UNCHANGED <<engine, posts, spent>>

Succeeded(c) == At(c, "answered") /\ call[c].code < 400

Accepted(c) ==
    /\ Succeeded(c) /\ call[c].op = "submit"
    /\ Reply(c, 202)
    /\ UNCHANGED <<engine, posts, spent, faults>>

StatusReceived(c) ==
    /\ Succeeded(c) /\ call[c].op = "status"
    /\ Reply(c, 200)
    /\ UNCHANGED <<engine, posts, spent, faults>>

\* download_report reads the body outside of the retry loop: a connection that
\* breaks is an unexpected exception, a report that is too large a 502.
ReportReceived(c) ==
    /\ Succeeded(c) /\ call[c].op = "report"
    /\ \/ \E code \in {200, 502} : Reply(c, code) /\ UNCHANGED faults
       \/ faults < MaxFaults /\ faults' = faults + 1 /\ Reply(c, 500)
    /\ UNCHANGED <<engine, posts, spent>>

\* wait_for_job: a terminal job is returned; the deadline is only looked at now.
WaitReceived(c) ==
    /\ Succeeded(c) /\ call[c].op = "wait"
    /\ IF call[c].shows \in Terminal THEN Reply(c, 200)
       ELSE IF spent[c] >= WaitTimeout THEN Reply(c, 504)
       ELSE Become(c, [call[c] EXCEPT !.pc = "pause"]) /\ UNCHANGED temp
    /\ UNCHANGED <<engine, posts, spent, faults>>

(***************************************************************************)
(* Time.                                                                   *)
(***************************************************************************)
Aged(c) == spent' = IF call[c].op = "wait" THEN [spent EXCEPT ![c] = @ + 1] ELSE spent

\* A request that is not answered, or whose answer has not arrived, hangs.
Hang(c) ==
    /\ call[c].pc \in {"sent", "answered"} /\ call[c].hung < ReadTimeout
    /\ Become(c, [call[c] EXCEPT !.hung = @ + 1])
    /\ Aged(c)
    /\ UNCHANGED <<engine, temp, posts, faults>>

\* poll_interval_seconds is over: the next get_job, with all its attempts.
PollAgain(c) ==
    /\ At(c, "pause")
    /\ Become(c, [call[c] EXCEPT !.pc = "sent", !.attempt = 0, !.hung = 0])
    /\ Aged(c)
    /\ UNCHANGED <<engine, temp, posts, faults>>

EngineWorks ==
    /\ \E j \in Jobs : Engine!Start(j) \/ Engine!Complete(j) \/ Engine!Fail(j)
    /\ UNCHANGED <<call, temp, posts, spent, faults>>

EngineHandles(c) == HandleSubmit(c) \/ HandleStatus(c) \/ HandleReport(c)
Client(c) ==
    \/ Refused(c) \/ TimesOut(c)
    \/ Accepted(c) \/ StatusReceived(c) \/ ReportReceived(c) \/ WaitReceived(c)
    \/ Hang(c) \/ PollAgain(c)

ProxyNext ==
    \/ \E c \in Callers :
          \/ ArriveSubmit(c)
          \/ \E op \in {"status", "wait"}, j \in Jobs : ArriveGet(c, op, j, NoKind)
          \/ \E j \in Jobs, k \in PublicKinds : ArriveGet(c, "report", j, k)
          \/ EngineHandles(c) \/ Gateway(c) \/ ConnectionFails(c) \/ Client(c)
    \/ EngineWorks

ProxySpec == ProxyInit /\ [][ProxyNext]_proxyVars

\* Stage 1 runs and time passes; neither the engine nor the network has to answer.
FairProxySpec == ProxySpec /\ \A c \in Callers : WF_proxyVars(Client(c))

(***************************************************************************)
(* Properties.                                                             *)
(***************************************************************************)
Done(c, op) == At(c, "done") /\ call[c].op = op

\* The values the variables take; a request that is over has left no file behind.
ProxyTypeOK ==
    /\ Engine!TypeOK
    /\ call \in [Callers ->
          [pc : {"idle", "sent", "answered", "pause", "done"},
           op : {"none", "submit", "status", "wait", "report"},
           job : Jobs \cup {NoJob}, kind : PublicKinds \cup {NoKind},
           attempt : 0 .. GetRetries, hung : 0 .. ReadTimeout,
           code : {0, 200, 202, 400, 404, 409, 413, 500, 502, 503, 504},
           body : {"none", "detail", "page"},
           shows : Engine!Statuses]]
    /\ temp \in [Callers -> BOOLEAN]
    /\ \A c \in Callers : At(c, "done") => ~temp[c]
    /\ posts \in [Callers -> SUBSET Jobs]
    /\ spent \in [Callers -> Nat]
    /\ faults \in 0 .. MaxFaults

\* "POST upload is deliberately NOT retried": whatever the network loses, a
\* submission makes at most one job, a 202 names that job, and a submission that is
\* refused with a 4xx has made none.
SubmissionOutcome ==
    \A c \in Callers :
        /\ \A j, k \in posts[c] : j = k
        /\ Done(c, "submit") /\ call[c].code = 202 => posts[c] = {call[c].job}
        /\ Done(c, "submit") /\ call[c].code \in 400 .. 499 => posts[c] = {}

\* Every request to Stage 1 is answered, even if the engine never answers.
EveryCallAnswered == \A c \in Callers : ~At(c, "done") /\ ~At(c, "idle") ~> At(c, "done")

\* "test_upstream_404_is_preserved_as_public_404": when the engine does not know the
\* job, so says Stage 1, unless the network fails.
UnknownJobIs404 ==
    \A c \in Callers :
        Done(c, "status") /\ call[c].body = "detail" /\ call[c].shows = "absent"
            => call[c].code \in {404, 503, 504}
=============================================================================
