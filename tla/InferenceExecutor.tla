-------------------------- MODULE InferenceExecutor -------------------------
(***************************************************************************)
(* The process-isolated inference of the Stage-1 API                       *)
(* (utils/inference_executor.py): request threads share one worker process *)
(* behind one lock and one pipe.  A worker that times out, dies or runs out*)
(* of memory is terminated and the next request starts a fresh one.        *)
(*                                                                         *)
(* Around it run the readiness test of services/model_runtime.py, which    *)
(* reads the executor without the lock and may start the worker, and       *)
(* Gunicorn, which aborts an API process whose request takes too long.     *)
(***************************************************************************)
EXTENDS Integers, Sequences, FiniteSets

CONSTANTS
    Callers,            \* request threads of the API process
    Pids,               \* process ids of inference workers
    Requests,           \* request ids, uuid4().hex
    NoCaller, NoPid, NoRequest,
    InferenceTimeout,   \* INFERENCE_TIMEOUT_SECONDS, in ticks
    StartupTimeout,     \* INFERENCE_STARTUP_TIMEOUT_SECONDS, in ticks
    GunicornTimeout,    \* timeout of gunicorn.conf.py, in ticks
    MaxKills            \* bound on API processes killed without a chance to clean up

ASSUME NonesAssumption ==
    NoCaller \notin Callers /\ NoPid \notin Pids /\ NoRequest \notin Requests
ASSUME TimeoutsAssumption ==
    /\ InferenceTimeout \in Nat \ {0} /\ StartupTimeout \in Nat \ {0}
    /\ GunicornTimeout \in Nat \ {0} /\ MaxKills \in Nat

VARIABLES
    lock,       \* _lock
    process,    \* _process (and _conn, its end of the pipe)
    ready,      \* _ready
    caller,     \* what each request thread is doing
    child,      \* what each worker process is doing
    work,       \* the request a worker process is busy with
    inbox,      \* the request on its way to a worker
    outbox,     \* messages on their way from a worker
    waited,     \* ticks since the holder of the lock began to poll
    spent,      \* under Gunicorn: ticks since its one request began; else Untimed
    kills       \* API processes killed so far

pipes == <<child, work, inbox, outbox>>
executor == <<process, ready>>
\* The API runs without Gunicorn (the development server, the tests).
Untimed == -1
vars == <<lock, executor, caller, pipes, waited, spent, kills>>

Idle == [pc |-> "idle", stage |-> "none", wants |-> "none", request |-> NoRequest]

\* Where a request stands: run_detectors asks is_runtime_ready, which may start
\* the worker and then asks again, before it sends the image.
Stages == {"none", "first", "start", "second", "request"}
Steps == {"flags", "alive", "lock", "check", "boot", "send", "sending", "wait"}
\* The steps inside "with self._lock".
Locked == {"check", "boot", "send", "sending", "wait"}

Alive(p) == child[p] \in {"loading", "idle", "working"}
Running == process # NoPid /\ Alive(process)

\* conn.poll(): a message, or the end of the pipe.
Readable(p) == outbox[p] # <<>> \/ ~Alive(p)

Init ==
    /\ lock = NoCaller
    /\ process = NoPid
    /\ ready = FALSE
    /\ caller = [c \in Callers |-> Idle]
    /\ child = [p \in Pids |-> "gone"]
    /\ work = [p \in Pids |-> NoRequest]
    /\ inbox = [p \in Pids |-> NoRequest]
    /\ outbox = [p \in Pids |-> <<>>]
    /\ waited = 0
    /\ spent \in {0, Untimed}
    /\ kills = 0

(***************************************************************************)
(* Requests and the readiness test.                                        *)
(***************************************************************************)
At(c, pc) == caller[c].pc = pc
Move(c, pc) == caller' = [caller EXCEPT ![c].pc = pc]
MoveTo(c, stage, pc) ==
    caller' = [caller EXCEPT ![c] = [pc |-> pc, stage |-> stage, wants |-> caller[c].wants,
                                    request |-> NoRequest]]
Leave(c) == caller' = [caller EXCEPT ![c] = Idle]
Restarted == IF spent = Untimed THEN Untimed ELSE 0

\* GET /readyz and /health want to know; an analysis wants a result.  Under
\* Gunicorn (worker_class "sync", one thread) one request is served at a time.
Arrive(c, wants) ==
    /\ At(c, "idle")
    /\ spent = Untimed \/ \A d \in Callers : At(d, "idle")
    /\ caller' = [caller EXCEPT ![c] = [pc |-> "flags", stage |-> "first", wants |-> wants,
                                       request |-> NoRequest]]
    /\ spent' = Restarted
    /\ UNCHANGED <<lock, executor, pipes, waited, kills>>

Answered(c, yes) ==
    IF yes /\ caller[c].wants = "infer" THEN MoveTo(c, "request", "lock")
    ELSE IF ~yes /\ caller[c].stage = "first" THEN MoveTo(c, "start", "lock")
    ELSE Leave(c)

\* is_ready, in two reads because no lock is held: _ready and _process first,
ReadFlags(c) ==
    /\ At(c, "flags")
    /\ IF ready /\ process # NoPid THEN Move(c, "alive") ELSE Answered(c, FALSE)
    /\ UNCHANGED <<lock, executor, pipes, waited, spent, kills>>

\* ... then _process once more, which may be None by now: an AttributeError,
\* which only the second is_ready of is_runtime_ready catches.
ReadAlive(c) ==
    /\ At(c, "alive")
    /\ IF process = NoPid THEN Leave(c) ELSE Answered(c, Alive(process))
    /\ UNCHANGED <<lock, executor, pipes, waited, spent, kills>>

Acquire(c) ==
    /\ At(c, "lock")
    /\ lock = NoCaller
    /\ lock' = c
    /\ Move(c, "check")
    /\ UNCHANGED <<executor, pipes, waited, spent, kills>>

(***************************************************************************)
(* _stop_locked and _start_locked.                                         *)
(***************************************************************************)
\* terminate() and, if that is not enough, kill(): the process p is gone and
\* its pipe is closed.
Reaped(p) ==
    /\ child' = [child EXCEPT ![p] = "gone"]
    /\ work' = [work EXCEPT ![p] = NoRequest]
    /\ inbox' = [inbox EXCEPT ![p] = NoRequest]
    /\ outbox' = [outbox EXCEPT ![p] = <<>>]

Stop ==
    /\ process' = NoPid /\ ready' = FALSE
    /\ IF process = NoPid THEN UNCHANGED pipes ELSE Reaped(process)

\* The request ends, with an exception or without, and so does "with self._lock".
Release(c) ==
    /\ lock' = NoCaller
    /\ Leave(c)
    /\ waited' = 0
    /\ UNCHANGED <<spent, kills>>

\* What follows _start_locked once the worker is ready.
Started(c) ==
    IF caller[c].stage = "start"
    THEN lock' = NoCaller /\ MoveTo(c, "second", "flags")
    ELSE UNCHANGED lock /\ Move(c, "send")

\* The worker is alive and ready.
CheckReady(c) ==
    /\ At(c, "check")
    /\ Running /\ ready
    /\ Started(c)
    /\ UNCHANGED <<executor, pipes, waited, spent, kills>>

\* The old worker is stopped and a new one started, in a process p.
Spawn(c, p) ==
    /\ At(c, "check")
    /\ ~(Running /\ ready)
    /\ child[p] = "gone"
    /\ child' = [q \in Pids |-> IF q = p THEN "loading"
                                ELSE IF q = process THEN "gone" ELSE child[q]]
    /\ IF process = NoPid THEN UNCHANGED <<work, inbox, outbox>>
       ELSE /\ work' = [work EXCEPT ![process] = NoRequest]
            /\ inbox' = [inbox EXCEPT ![process] = NoRequest]
            /\ outbox' = [outbox EXCEPT ![process] = <<>>]
    /\ process' = p /\ ready' = FALSE
    /\ Move(c, "boot")
    /\ UNCHANGED <<lock, waited, spent, kills>>

\* The first message of the worker: "ready", or else "startup_error".
BootMessage(c) ==
    /\ At(c, "boot")
    /\ outbox[process] # <<>>
    /\ IF Head(outbox[process]).kind = "ready"
       THEN /\ Started(c)
            /\ ready' = TRUE
            /\ outbox' = [outbox EXCEPT ![process] = Tail(@)]
            /\ waited' = 0
            /\ UNCHANGED <<process, child, work, inbox, spent, kills>>
       ELSE Stop /\ Release(c)

\* The worker died without a word: recv raises an EOFError that nothing in
\* _start_locked expects, so _process and _conn stay as they are.
BootEof(c) ==
    /\ At(c, "boot")
    /\ outbox[process] = <<>> /\ ~Alive(process)
    /\ Release(c)
    /\ UNCHANGED <<executor, pipes>>

BootTimeout(c) ==
    /\ At(c, "boot")
    /\ ~Readable(process) /\ waited >= StartupTimeout
    /\ Stop
    /\ Release(c)

(***************************************************************************)
(* _request, after _start_locked.                                          *)
(***************************************************************************)
\* The image is larger than the pipe: send() is over when the worker has it.
Send(c, r) ==
    /\ At(c, "send")
    /\ \A d \in Callers : caller[d].request # r
    /\ \A p \in Pids :
          /\ work[p] # r /\ inbox[p] # r
          /\ \A i \in DOMAIN outbox[p] : outbox[p][i].request # r
    /\ inbox' = [inbox EXCEPT ![process] = r]
    /\ caller' = [caller EXCEPT ![c] = [pc |-> "sending", stage |-> "request",
                                       wants |-> caller[c].wants, request |-> r]]
    /\ UNCHANGED <<lock, executor, child, work, outbox, waited, spent, kills>>

SendDone(c) ==
    /\ At(c, "sending")
    /\ inbox[process] = NoRequest /\ Alive(process)
    /\ Move(c, "wait")
    /\ UNCHANGED <<lock, executor, pipes, waited, spent, kills>>

\* BrokenPipeError, EOFError or OSError.
SendFails(c) ==
    /\ At(c, "sending")
    /\ ~Alive(process)
    /\ Stop
    /\ Release(c)

Timeout_NoDeadline(c) == FALSE

Timeout_KeepWorker(c) ==
    /\ At(c, "wait")
    /\ ~Readable(process) /\ waited >= InferenceTimeout
    /\ Release(c)
    /\ UNCHANGED <<executor, pipes>>

Timeout(c) ==
    /\ At(c, "wait")
    /\ ~Readable(process) /\ waited >= InferenceTimeout
    /\ Stop
    /\ Release(c)

\* An answer; it is refused, and the worker stopped, if it is for another
\* request or fatal.
Receive(c) ==
    LET message == Head(outbox[process]) IN
    /\ At(c, "wait")
    /\ outbox[process] # <<>>
    /\ IF message.request # caller[c].request \/ message.kind = "fatal"
       THEN Stop
       ELSE /\ outbox' = [outbox EXCEPT ![process] = Tail(@)]
            /\ UNCHANGED <<executor, child, work, inbox>>
    /\ Release(c)

ReceiveEof(c) ==
    /\ At(c, "wait")
    /\ outbox[process] = <<>> /\ ~Alive(process)
    /\ Stop
    /\ Release(c)

(***************************************************************************)
(* _process_worker.  Whether and when it takes a step is not the API's to  *)
(* say: it may hang in any call, and it may die at any time.               *)
(***************************************************************************)
Says(p, kind, r) ==
    outbox' = [outbox EXCEPT ![p] = Append(@, [kind |-> kind, request |-> r])]

\* A worker whose parent is gone dies of its next use of the pipe.
Orphan(p) == p # process

Load(p) ==
    /\ child[p] = "loading" /\ ~Orphan(p)
    /\ \/ child' = [child EXCEPT ![p] = "idle"] /\ Says(p, "ready", NoRequest)
       \/ child' = [child EXCEPT ![p] = "dead"] /\ Says(p, "startup_error", NoRequest)
    /\ UNCHANGED <<lock, executor, caller, work, inbox, waited, spent, kills>>

Take(p) ==
    /\ child[p] = "idle" /\ inbox[p] # NoRequest
    /\ child' = [child EXCEPT ![p] = "working"]
    /\ work' = [work EXCEPT ![p] = inbox[p]]
    /\ inbox' = [inbox EXCEPT ![p] = NoRequest]
    /\ UNCHANGED <<lock, executor, caller, outbox, waited, spent, kills>>

\* A result, an error, or an error after which the worker gives up.
Finish(p) ==
    /\ child[p] = "working" /\ ~Orphan(p)
    /\ \E kind \in {"result", "error", "fatal"} :
          /\ Says(p, kind, work[p])
          /\ child' = [child EXCEPT ![p] = IF kind = "fatal" THEN "dead" ELSE "idle"]
    /\ work' = [work EXCEPT ![p] = NoRequest]
    /\ UNCHANGED <<lock, executor, caller, inbox, waited, spent, kills>>

Die(p) ==
    /\ Alive(p)
    /\ IF Orphan(p) THEN Reaped(p)
       ELSE /\ child' = [child EXCEPT ![p] = "dead"]
            /\ work' = [work EXCEPT ![p] = NoRequest]
            /\ inbox' = [inbox EXCEPT ![p] = NoRequest]
            /\ UNCHANGED outbox
    /\ UNCHANGED <<lock, executor, caller, waited, spent, kills>>

(***************************************************************************)
(* Time and the end of the API process.                                    *)
(***************************************************************************)
\* Time passes while the holder of the lock polls.
Tick ==
    /\ \E c \in Callers :
          \/ At(c, "boot") /\ waited < StartupTimeout /\ ~Readable(process)
          \/ At(c, "wait") /\ waited < InferenceTimeout /\ ~Readable(process)
    /\ spent < GunicornTimeout
    /\ waited' = waited + 1
    /\ spent' = IF spent = Untimed THEN Untimed ELSE spent + 1
    /\ UNCHANGED <<lock, executor, caller, pipes, kills>>

\* The API process is replaced: nobody waits for an answer any more.
Replaced ==
    /\ caller' = [c \in Callers |-> Idle]
    /\ lock' = NoCaller
    /\ waited' = 0
    /\ spent' = Restarted

GunicornAborts_NoHook ==
    /\ spent >= GunicornTimeout
    /\ \E c \in Callers : ~At(c, "idle")
    /\ process' = NoPid /\ ready' = FALSE
    /\ Replaced
    /\ UNCHANGED <<pipes, kills>>

\* SIGABRT: sys.exit unwinds the request, and the hook worker_exit shuts the
\* executor down.
GunicornAborts ==
    /\ spent >= GunicornTimeout
    /\ \E c \in Callers : ~At(c, "idle")
    /\ Stop
    /\ Replaced
    /\ UNCHANGED kills

\* SIGKILL: no hook runs, and the inference worker is left behind.
Kill ==
    /\ kills < MaxKills
    /\ kills' = kills + 1
    /\ process' = NoPid /\ ready' = FALSE
    /\ Replaced
    /\ child' = [p \in Pids |-> IF p = process /\ ~Alive(p) THEN "gone" ELSE child[p]]
    /\ inbox' = [p \in Pids |-> NoRequest]
    /\ outbox' = [p \in Pids |-> <<>>]
    /\ UNCHANGED work

Requesting(c) ==
    \/ ReadFlags(c) \/ ReadAlive(c) \/ Acquire(c)
    \/ CheckReady(c) \/ \E p \in Pids : Spawn(c, p)
    \/ BootMessage(c) \/ BootEof(c) \/ BootTimeout(c)
    \/ \E r \in Requests : Send(c, r)
    \/ SendDone(c) \/ SendFails(c)
    \/ Timeout(c) \/ Receive(c) \/ ReceiveEof(c)

Next ==
    \/ \E c \in Callers :
          \/ \E wants \in {"infer", "readyz"} : Arrive(c, wants)
          \/ Requesting(c)
    \/ \E p \in Pids : Load(p) \/ Take(p) \/ Finish(p) \/ Die(p)
    \/ Tick \/ GunicornAborts \/ Kill

Spec == Init /\ [][Next]_vars

\* The API's own threads run, time passes, and a worker that waits for an image
\* reads it.  Nothing makes a worker load, answer or die.
FairSpec ==
    /\ Spec
    /\ \A c \in Callers : WF_vars(Requesting(c))
    /\ WF_vars(Tick) /\ WF_vars(GunicornAborts)
    /\ \A p \in Pids : WF_vars(Take(p))

(***************************************************************************)
(* Properties.                                                             *)
(***************************************************************************)
CallerType == [pc : {"idle"} \cup Steps, stage : Stages, wants : {"none", "infer", "readyz"},
               request : Requests \cup {NoRequest}]
Messages == [kind : {"ready", "startup_error", "result", "error", "fatal"},
             request : Requests \cup {NoRequest}]

\* The values the variables take; a worker never has two messages under way.
TypeOK ==
    /\ lock \in Callers \cup {NoCaller}
    /\ process \in Pids \cup {NoPid}
    /\ ready \in BOOLEAN
    /\ caller \in [Callers -> CallerType]
    /\ child \in [Pids -> {"gone", "loading", "idle", "working", "dead"}]
    /\ work \in [Pids -> Requests \cup {NoRequest}]
    /\ inbox \in [Pids -> Requests \cup {NoRequest}]
    /\ outbox \in [Pids -> Seq(Messages)]
    /\ \A p \in Pids : Len(outbox[p]) <= 1
    /\ waited \in Nat
    /\ spent \in Nat \cup {Untimed}
    /\ kills \in 0 .. MaxKills

\* One model in memory: as long as no API process was killed, the only inference
\* process alive is the one the executor knows ("INFERENCE_WORKERS=1").
OneWorker ==
    kills = 0 => \A p \in Pids : Alive(p) => p = process

\* No worker of the executor computes for a request that has been given up: a
\* timeout, an abort or a failed send ends the computation with the request ("A
\* timeout or OOM terminates that process").
NoAbandonedWork ==
    \A p \in Pids :
        (child[p] = "working" /\ p = process)
            => \E c \in Callers : /\ lock = c
                                  /\ caller[c].pc \in {"sending", "wait"}
                                  /\ caller[c].request = work[p]

\* The answer a request reads is its own: nothing an earlier request left in the
\* pipe is ever in front of it, so the check of request_id never has to refuse.
NoStaleAnswer ==
    \A c \in Callers :
        (At(c, "wait") /\ outbox[process] # <<>>)
            => Head(outbox[process]).request = caller[c].request

\* The lock is given back: a worker that hangs, dies or never starts cannot keep
\* the requests behind it waiting forever.
LockIsReleased == \A c \in Callers : (lock = c) ~> (lock # c)

\* "The process-isolated inference worker enforces INFERENCE_TIMEOUT first.
\* Gunicorn remains a second, outer kill boundary": no request lasts so long that
\* Gunicorn aborts it.
InferenceTimeoutFirst == spent < GunicornTimeout
=============================================================================
