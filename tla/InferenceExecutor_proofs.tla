---------------------- MODULE InferenceExecutor_proofs ----------------------
(***************************************************************************)
(* Proofs about the inference executor, for any number of threads, process *)
(* ids and request ids, and any timeouts.                                  *)
(***************************************************************************)
EXTENDS InferenceExecutor, TLAPS

USE DEF Alive, At

(***************************************************************************)
(* The inductive invariant: the lock, and what is in the pipe at each step *)
(* of its holder.                                                          *)
(***************************************************************************)
\* Exactly the holder of the lock is inside "with self._lock".
LockInv ==
    \A c \in Callers :
        /\ caller[c].pc \in Locked <=> lock = c
        /\ caller[c].pc \in {"boot", "send", "sending", "wait"} => process # NoPid

\* A worker that loads, or has just loaded, or has failed to.
Booting(p) ==
    /\ child[p] \in {"loading", "idle", "dead"}
    /\ work[p] = NoRequest /\ inbox[p] = NoRequest
    /\ child[p] = "loading" => outbox[p] = <<>>

\* A worker nobody asks for anything.
Resting(p) ==
    /\ child[p] \in {"idle", "dead"}
    /\ work[p] = NoRequest /\ inbox[p] = NoRequest /\ outbox[p] = <<>>

\* A worker that has been sent request r: it has not read it yet, or it is at
\* work, or it has answered or died.
Serving(p, r) ==
    \/ child[p] \in {"idle", "dead"} /\ inbox[p] = r /\ work[p] = NoRequest /\ outbox[p] = <<>>
    \/ child[p] = "working" /\ inbox[p] = NoRequest /\ work[p] = r /\ outbox[p] = <<>>
    \/ /\ child[p] \in {"idle", "dead"} /\ inbox[p] = NoRequest /\ work[p] = NoRequest
       /\ outbox[p] # <<>> => Head(outbox[p]).request = r

WorkerInv ==
    process # NoPid =>
        /\ \A c \in Callers : At(c, "boot") => Booting(process)
        /\ \A c \in Callers :
               caller[c].pc \in {"sending", "wait"} => Serving(process, caller[c].request)
        /\ (\A c \in Callers : caller[c].pc \notin {"boot", "sending", "wait"})
               => Resting(process)

\* Processes the executor does not know are not written to, and a process that
\* is not at work has no request.
OrphanInv ==
    \A p \in Pids :
        /\ p # process => inbox[p] = NoRequest /\ outbox[p] = <<>>
        /\ work[p] # NoRequest => child[p] = "working"

Inv == TypeOK /\ LockInv /\ WorkerInv /\ OrphanInv /\ OneWorker

LEMMA InitInv == Init => Inv
<1> SUFFICES ASSUME Init PROVE Inv
  OBVIOUS
<1> USE DEF Init
<1>1. caller \in [Callers -> CallerType] /\ \A c \in Callers : caller[c].pc = "idle"
  BY DEF Idle, CallerType, Stages
<1>2. <<>> \in Seq(Messages) /\ Len(<<>>) = 0
  OBVIOUS
<1>3. outbox \in [Pids -> Seq(Messages)] /\ \A p \in Pids : Len(outbox[p]) <= 1
  BY <1>2
<1>3a. kills \in 0 .. MaxKills
  BY TimeoutsAssumption DEF TimeoutsAssumption
<1>3b. TypeOK
  <2>1. spent \in Nat \cup {Untimed}
    OBVIOUS
  <2>2. lock \in Callers \cup {NoCaller} /\ process \in Pids \cup {NoPid} /\ ready \in BOOLEAN
    OBVIOUS
  <2>3. /\ child \in [Pids -> {"gone", "loading", "idle", "working", "dead"}]
        /\ work \in [Pids -> Requests \cup {NoRequest}]
        /\ inbox \in [Pids -> Requests \cup {NoRequest}]
        /\ waited \in Nat
    OBVIOUS
  <2>4. QED
    BY <1>1, <1>3, <1>3a, <2>1, <2>2, <2>3 DEF TypeOK
<1>4. LockInv
  BY <1>1, NonesAssumption DEF LockInv, Locked, NonesAssumption
<1>5. WorkerInv /\ OrphanInv /\ OneWorker
  BY DEF WorkerInv, OrphanInv, OneWorker
<1>6. QED
  BY <1>3b, <1>4, <1>5 DEF Inv

(***************************************************************************)
(* Steps outside of the lock.                                              *)
(***************************************************************************)
\* A thread that neither holds the lock nor takes it changes nothing that the
\* invariant says of the worker.
LEMMA OutsideInv ==
    ASSUME Inv, NEW c \in Callers, NEW next \in CallerType,
           caller' = [caller EXCEPT ![c] = next],
           caller[c].pc \notin Locked, next.pc \notin Locked,
           UNCHANGED <<lock, executor, pipes, kills>>, waited' \in Nat, spent' \in Nat \cup {Untimed}
    PROVE  Inv'
<1>1. /\ caller' \in [Callers -> CallerType]
      /\ \A d \in Callers : d # c => caller'[d] = caller[d]
      /\ caller'[c] = next
  BY DEF Inv, TypeOK
<1>2. TypeOK'
  BY <1>1 DEF Inv, TypeOK, executor, pipes
<1>3. LockInv'
  BY <1>1 DEF Inv, LockInv, executor, Locked
<1>4. WorkerInv'
  <2>1. \A d \in Callers : caller'[d].pc \in {"boot", "sending", "wait"} => caller'[d] = caller[d]
    BY <1>1 DEF Locked
  <2>2. \A d \in Callers : caller[d].pc \in {"boot", "sending", "wait"} => caller'[d] = caller[d]
    BY <1>1 DEF Locked
  <2>3. QED
    BY <2>1, <2>2 DEF Inv, WorkerInv, Booting, Resting, Serving, executor, pipes
<1>5. OrphanInv' /\ OneWorker'
  BY DEF Inv, OrphanInv, OneWorker, executor, pipes
<1>6. QED
  BY <1>2, <1>3, <1>4, <1>5 DEF Inv

LEMMA IdleInCallerType == Idle \in CallerType /\ Idle.pc = "idle"
BY DEF Idle, CallerType, Stages

LEMMA MovesType ==
    ASSUME Inv, NEW c \in Callers, NEW stage \in Stages, NEW pc \in Steps
    PROVE  /\ [caller[c] EXCEPT !.pc = pc] \in CallerType
           /\ [caller[c] EXCEPT !.pc = pc].pc = pc
           /\ [caller[c] EXCEPT !.pc = pc].request = caller[c].request
           /\ [pc |-> pc, stage |-> stage, wants |-> caller[c].wants, request |-> NoRequest]
                 \in CallerType
BY DEF Inv, TypeOK, CallerType

LEMMA AskingInv ==
    ASSUME Inv, NEW c \in Callers,
           \/ \E wants \in {"infer", "readyz"} : Arrive(c, wants)
           \/ ReadFlags(c) \/ ReadAlive(c)
    PROVE  Inv'
<1>1. PICK next \in CallerType :
          /\ caller' = [caller EXCEPT ![c] = next]
          /\ next.pc \notin Locked
  <2>1. ASSUME NEW wants \in {"infer", "readyz"}, Arrive(c, wants)
        PROVE  \E next \in CallerType : /\ caller' = [caller EXCEPT ![c] = next]
                                        /\ next.pc \notin Locked
    <3> DEFINE next == [pc |-> "flags", stage |-> "first", wants |-> wants, request |-> NoRequest]
    <3>1. next \in CallerType /\ next.pc \notin Locked
      BY DEF CallerType, Steps, Stages, Locked
    <3>2. caller' = [caller EXCEPT ![c] = next]
      BY <2>1 DEF Arrive
    <3>3. QED
      BY <3>1, <3>2
  <2>2. ASSUME NEW stage \in Stages, MoveTo(c, stage, "lock")
        PROVE  \E next \in CallerType : /\ caller' = [caller EXCEPT ![c] = next]
                                        /\ next.pc \notin Locked
    <3> DEFINE next == [pc |-> "lock", stage |-> stage, wants |-> caller[c].wants,
                        request |-> NoRequest]
    <3>1. next \in CallerType /\ next.pc \notin Locked
      BY MovesType DEF Steps, Locked
    <3>2. caller' = [caller EXCEPT ![c] = next]
      BY <2>2 DEF MoveTo
    <3>3. QED
      BY <3>1, <3>2
  <2>3. ASSUME Move(c, "alive")
        PROVE  \E next \in CallerType : /\ caller' = [caller EXCEPT ![c] = next]
                                        /\ next.pc \notin Locked
    <3>1. caller' = [caller EXCEPT ![c] = [caller[c] EXCEPT !.pc = "alive"]]
      BY <2>3 DEF Move, Inv, TypeOK
    <3>2. "alive" \in Steps /\ "alive" \notin Locked
      BY DEF Steps, Locked
    <3>3. [caller[c] EXCEPT !.pc = "alive"] \in CallerType
      BY <3>2, MovesType DEF Stages
    <3>4. [caller[c] EXCEPT !.pc = "alive"].pc = "alive"
      BY <3>2, MovesType DEF Stages
    <3>5. QED
      BY <3>1, <3>2, <3>3, <3>4
  <2>4. ASSUME Leave(c)
        PROVE  \E next \in CallerType : /\ caller' = [caller EXCEPT ![c] = next]
                                        /\ next.pc \notin Locked
    BY <2>4, IdleInCallerType DEF Leave, Locked
  <2>5. QED
    <3>1. "request" \in Stages /\ "start" \in Stages
      BY DEF Stages
    <3>2. CASE ReadFlags(c) \/ ReadAlive(c)
      BY <2>2, <2>3, <2>4, <3>1, <3>2 DEF ReadFlags, ReadAlive, Answered
    <3>3. QED
      BY <2>1, <3>2
<1>2. /\ caller[c].pc \notin Locked
      /\ UNCHANGED <<lock, executor, pipes, kills>> /\ waited' = waited /\ spent' \in {Restarted, spent}
  <2>1. caller[c].pc \in {"idle", "flags", "alive"}
    BY DEF Arrive, ReadFlags, ReadAlive
  <2>2. UNCHANGED <<lock, executor, pipes, kills>> /\ waited' = waited /\ spent' \in {Restarted, spent}
    BY DEF Arrive, ReadFlags, ReadAlive
  <2>3. QED
    BY <2>1, <2>2 DEF Locked
<1>2a. waited' \in Nat /\ spent' \in Nat \cup {Untimed}
  BY <1>2 DEF Inv, TypeOK, Restarted
<1>3. QED
  BY <1>1, <1>2, <1>2a, OutsideInv

LEMMA AcquireInv ==
    ASSUME Inv, NEW c \in Callers, Acquire(c)
    PROVE  Inv'
<1>1. /\ caller' \in [Callers -> CallerType]
      /\ \A d \in Callers : d # c => caller'[d] = caller[d]
      /\ caller'[c].pc = "check"
  BY DEF Inv, TypeOK, Acquire, Move, CallerType, Steps
<1>2. TypeOK'
  BY <1>1 DEF Inv, TypeOK, Acquire, executor, pipes
<1>3. LockInv'
  BY <1>1, NonesAssumption DEF Inv, LockInv, Acquire, executor, Locked, NonesAssumption
<1>4. WorkerInv'
  <2>1. \A d \in Callers : caller[d].pc \notin Locked
    BY NonesAssumption DEF Inv, LockInv, Acquire, NonesAssumption
  <2>2. \A d \in Callers : caller'[d].pc \notin {"boot", "sending", "wait"}
    BY <1>1, <2>1 DEF Locked
  <2>3. process # NoPid => Resting(process)
    BY <2>1 DEF Inv, WorkerInv, Locked
  <2>4. UNCHANGED <<process, child, work, inbox, outbox>>
    BY DEF Acquire, executor, pipes
  <2>5. QED
    BY <2>2, <2>3, <2>4 DEF WorkerInv, Resting
<1>5. OrphanInv' /\ OneWorker'
  BY DEF Inv, OrphanInv, OneWorker, Acquire, executor, pipes
<1>6. QED
  BY <1>2, <1>3, <1>4, <1>5 DEF Inv

(***************************************************************************)
(* Steps of the holder of the lock.                                        *)
(***************************************************************************)
\* The holder ends, one way or another, and leaves the worker at rest or gone.
LEMMA ReleaseInv ==
    ASSUME Inv, NEW c \in Callers, caller[c].pc \in Locked,
           caller' \in [Callers -> CallerType],
           \A d \in Callers : d # c => caller'[d] = caller[d],
           caller'[c].pc \notin Locked,
           lock' = NoCaller, spent' = spent, kills' = kills, waited' \in Nat,
           process' \in Pids \cup {NoPid}, ready' \in BOOLEAN,
           TypeOK', process' # NoPid => Resting(process)', OrphanInv', OneWorker'
    PROVE  Inv'
<1>1. \A d \in Callers : caller'[d].pc \notin Locked
  BY DEF Inv, LockInv
<1>2. LockInv'
  BY <1>1, NonesAssumption DEF LockInv, Locked, NonesAssumption
<1>3. WorkerInv'
  BY <1>1 DEF WorkerInv, Locked
<1>4. QED
  BY <1>2, <1>3 DEF Inv

\* After _stop_locked no worker is left that the executor could use.
LEMMA StopInv ==
    ASSUME Inv, Stop, kills' = kills
    PROVE  /\ process' = NoPid /\ ready' = FALSE
           /\ child' \in [Pids -> {"gone", "loading", "idle", "working", "dead"}]
           /\ work' \in [Pids -> Requests \cup {NoRequest}]
           /\ inbox' \in [Pids -> Requests \cup {NoRequest}]
           /\ outbox' \in [Pids -> Seq(Messages)] /\ \A p \in Pids : Len(outbox'[p]) <= 1
           /\ OrphanInv' /\ OneWorker'
<1>1. process' = NoPid /\ ready' = FALSE
  BY DEF Stop
<1>2. CASE process = NoPid
  <2>1. UNCHANGED <<child, work, inbox, outbox>>
    BY <1>2 DEF Stop, pipes
  <2>2. OrphanInv' /\ OneWorker'
    BY <1>1, <1>2, <2>1 DEF Inv, OrphanInv, OneWorker
  <2>3. QED
    BY <1>1, <2>1, <2>2 DEF Inv, TypeOK
<1>3. CASE process # NoPid
  <2>1. Reaped(process) /\ process \in Pids
    BY <1>3 DEF Stop, Inv, TypeOK
  <2>2. /\ child' \in [Pids -> {"gone", "loading", "idle", "working", "dead"}]
        /\ work' \in [Pids -> Requests \cup {NoRequest}]
        /\ inbox' \in [Pids -> Requests \cup {NoRequest}]
    BY <2>1 DEF Reaped, Inv, TypeOK
  <2>3. outbox' \in [Pids -> Seq(Messages)] /\ \A p \in Pids : Len(outbox'[p]) <= 1
    <3>1. <<>> \in Seq(Messages) /\ Len(<<>>) <= 1
      OBVIOUS
    <3>2. outbox' = [outbox EXCEPT ![process] = <<>>]
      BY <2>1 DEF Reaped
    <3>3. QED
      BY <2>1, <3>1, <3>2 DEF Inv, TypeOK
  <2>4. OrphanInv'
    BY <1>1, <2>1 DEF Reaped, Inv, TypeOK, OrphanInv
  <2>5. OneWorker'
    BY <1>1, <2>1 DEF Reaped, Inv, TypeOK, OneWorker
  <2>6. QED
    BY <1>1, <2>2, <2>3, <2>4, <2>5
<1>4. QED
  BY <1>2, <1>3

\* Every way the holder can give up.
LEMMA GiveUpInv ==
    ASSUME Inv, NEW c \in Callers, caller[c].pc \in Locked, Stop, Release(c)
    PROVE  Inv'
<1>1. kills' = kills /\ spent' = spent /\ lock' = NoCaller /\ waited' = 0
  BY DEF Release
<1>2. /\ caller' \in [Callers -> CallerType]
      /\ \A d \in Callers : d # c => caller'[d] = caller[d]
      /\ caller'[c].pc = "idle"
  BY IdleInCallerType DEF Release, Leave, Inv, TypeOK
<1>3. /\ process' = NoPid /\ ready' = FALSE
      /\ child' \in [Pids -> {"gone", "loading", "idle", "working", "dead"}]
      /\ work' \in [Pids -> Requests \cup {NoRequest}]
      /\ inbox' \in [Pids -> Requests \cup {NoRequest}]
      /\ outbox' \in [Pids -> Seq(Messages)] /\ \A p \in Pids : Len(outbox'[p]) <= 1
      /\ OrphanInv' /\ OneWorker'
  BY <1>1, StopInv
<1>4. TypeOK'
  BY <1>1, <1>2, <1>3 DEF Inv, TypeOK
<1>5. caller'[c].pc \notin Locked
  BY <1>2 DEF Locked
<1>6. QED
  BY <1>1, <1>2, <1>3, <1>4, <1>5, ReleaseInv

\* The holder is the only one inside, and the worker it has is alone in use.
LEMMA HolderAlone ==
    ASSUME Inv, NEW c \in Callers, caller[c].pc \in Locked
    PROVE  \A d \in Callers : d # c => caller[d].pc \notin Locked
BY DEF Inv, LockInv

\* The holder moves on inside the lock, and the invariant of its new step holds.
LEMMA HoldInv ==
    ASSUME Inv, NEW c \in Callers, caller[c].pc \in Locked,
           NEW next \in CallerType, next.pc \in Locked,
           caller' = [caller EXCEPT ![c] = next],
           UNCHANGED lock, TypeOK', OrphanInv', OneWorker',
           next.pc # "check" => process' # NoPid,
           process' # NoPid /\ next.pc = "boot" => Booting(process)',
           process' # NoPid /\ next.pc \in {"sending", "wait"} => Serving(process, next.request)',
           process' # NoPid /\ next.pc \in {"check", "send"} => Resting(process)'
    PROVE  Inv'
<1>1. /\ \A d \in Callers : d # c => caller'[d] = caller[d] /\ caller[d].pc \notin Locked
      /\ caller'[c] = next
      /\ lock = c
  BY HolderAlone DEF Inv, TypeOK, LockInv
<1>2. LockInv'
  BY <1>1 DEF Inv, LockInv, Locked
<1>3. WorkerInv'
  <2>1. ASSUME process' # NoPid, next.pc = "boot"
        PROVE  WorkerInv'
    BY <1>1, <2>1 DEF WorkerInv, Locked
  <2>2. ASSUME process' # NoPid, next.pc \in {"sending", "wait"}
        PROVE  WorkerInv'
    BY <1>1, <2>2 DEF WorkerInv, Locked, Serving
  <2>3. ASSUME process' # NoPid, next.pc \in {"check", "send"}
        PROVE  WorkerInv'
    BY <1>1, <2>3 DEF WorkerInv, Locked
  <2>4. QED
    BY <2>1, <2>2, <2>3 DEF WorkerInv, Locked
<1>4. QED
  BY <1>2, <1>3 DEF Inv

\* What the holder knows of the worker at each step.
LEMMA HolderKnows ==
    ASSUME Inv, NEW c \in Callers, caller[c].pc \in Locked
    PROVE  /\ lock = c
           /\ caller[c].pc # "check" => process \in Pids
           /\ caller[c].pc = "boot" => Booting(process)
           /\ caller[c].pc \in {"sending", "wait"} => Serving(process, caller[c].request)
           /\ process # NoPid /\ caller[c].pc \in {"check", "send"} => Resting(process)
           /\ process # NoPid => process \in Pids
<1>1. lock = c /\ (caller[c].pc # "check" => process # NoPid)
  BY DEF Inv, LockInv, Locked
<1>2. \A d \in Callers : d # c => caller[d].pc \notin Locked
  BY HolderAlone
<1>3. process # NoPid => process \in Pids
  BY DEF Inv, TypeOK
<1>4. process # NoPid /\ caller[c].pc \in {"check", "send"} => Resting(process)
  BY <1>2 DEF Inv, WorkerInv, Locked
<1>5. /\ caller[c].pc = "boot" => Booting(process)
      /\ caller[c].pc \in {"sending", "wait"} => Serving(process, caller[c].request)
  BY <1>1 DEF Inv, WorkerInv
<1>6. QED
  BY <1>1, <1>3, <1>4, <1>5

\* _start_locked has found, or made, a worker at rest.
LEMMA StartedInv ==
    ASSUME Inv, NEW c \in Callers, caller[c].pc \in Locked, Started(c),
           process' = process, process # NoPid, Resting(process)', ready' \in BOOLEAN,
           UNCHANGED <<child, work, inbox, kills, spent>>, waited' \in Nat,
           outbox' \in [Pids -> Seq(Messages)], \A p \in Pids : Len(outbox'[p]) <= 1,
           \A p \in Pids : p # process => outbox'[p] = outbox[p]
    PROVE  Inv'
<1>1. OrphanInv' /\ OneWorker'
  BY DEF Inv, OrphanInv, OneWorker
<1>2. CASE lock' = NoCaller /\ MoveTo(c, "second", "flags")
  <2>1. /\ caller' \in [Callers -> CallerType]
        /\ \A d \in Callers : d # c => caller'[d] = caller[d]
        /\ caller'[c].pc = "flags"
    BY <1>2, MovesType DEF MoveTo, Inv, TypeOK, Steps, Stages
  <2>2. TypeOK'
    BY <1>2, <2>1 DEF Inv, TypeOK
  <2>3. caller'[c].pc \notin Locked
    BY <2>1 DEF Locked
  <2>4. process' \in Pids \cup {NoPid}
    BY DEF Inv, TypeOK
  <2>5. QED
    BY <1>1, <1>2, <2>1, <2>2, <2>3, <2>4, ReleaseInv
<1>3. CASE UNCHANGED lock /\ Move(c, "send")
  <2> DEFINE next == [caller[c] EXCEPT !.pc = "send"]
  <2>0. "send" \in Steps /\ "second" \in Stages /\ "send" \in Locked
    BY DEF Steps, Stages, Locked
  <2>1. next \in CallerType /\ next.pc = "send"
    BY <2>0, MovesType
  <2>2. caller' = [caller EXCEPT ![c] = next]
    BY <1>3 DEF Move, Inv, TypeOK
  <2> HIDE DEF next
  <2>3. TypeOK'
    BY <1>3, <2>1, <2>2 DEF Inv, TypeOK
  <2>4. QED
    BY <1>1, <1>3, <2>0, <2>1, <2>2, <2>3, HoldInv
<1>4. QED
  BY <1>2, <1>3 DEF Started

LEMMA CheckReadyInv ==
    ASSUME Inv, NEW c \in Callers, CheckReady(c)
    PROVE  Inv'
<1>1. caller[c].pc \in Locked /\ process # NoPid
  BY DEF CheckReady, Running, Locked
<1>2. Resting(process)
  BY <1>1, HolderKnows DEF CheckReady
<1>3. UNCHANGED <<process, ready, child, work, inbox, outbox, waited, spent, kills>> /\ Started(c)
  BY DEF CheckReady, executor, pipes
<1>4. Resting(process)'
  BY <1>2, <1>3 DEF Resting
<1>5. QED
  BY <1>1, <1>3, <1>4, StartedInv DEF Inv, TypeOK

LEMMA BootMessageInv ==
    ASSUME Inv, NEW c \in Callers, BootMessage(c)
    PROVE  Inv'
<1>1. caller[c].pc \in Locked
  BY DEF BootMessage, Locked
<1>2. Booting(process) /\ process \in Pids
  BY <1>1, HolderKnows DEF BootMessage
<1>3. CASE Stop /\ Release(c)
  BY <1>1, <1>3, GiveUpInv
<1>4. CASE /\ Started(c) /\ ready' = TRUE
           /\ outbox' = [outbox EXCEPT ![process] = Tail(@)]
           /\ waited' = 0
           /\ UNCHANGED <<process, child, work, inbox, spent, kills>>
  <2>1. /\ outbox[process] \in Seq(Messages) /\ Len(outbox[process]) <= 1
        /\ outbox[process] # <<>>
    BY <1>2 DEF Inv, TypeOK, BootMessage
  <2>2. Tail(outbox[process]) = <<>>
    BY <2>1
  <2>3. <<>> \in Seq(Messages) /\ Len(<<>>) <= 1
    OBVIOUS
  <2>4. /\ outbox' \in [Pids -> Seq(Messages)] /\ \A p \in Pids : Len(outbox'[p]) <= 1
        /\ outbox'[process] = <<>>
        /\ \A p \in Pids : p # process => outbox'[p] = outbox[p]
    BY <1>2, <1>4, <2>2, <2>3 DEF Inv, TypeOK
  <2>5. Resting(process)'
    BY <1>2, <1>4, <2>1, <2>4 DEF Booting, Resting
  <2>6. process # NoPid
    BY <1>2, NonesAssumption DEF NonesAssumption
  <2>7. QED
    BY <1>1, <1>4, <2>4, <2>5, <2>6, StartedInv
<1>5. QED
  BY <1>3, <1>4 DEF BootMessage

LEMMA SpawnInv ==
    ASSUME Inv, NEW c \in Callers, NEW p \in Pids, Spawn(c, p)
    PROVE  Inv'
<1>1. /\ caller[c].pc = "check" /\ caller[c].pc \in Locked
      /\ child[p] = "gone" /\ process' = p /\ ready' = FALSE
      /\ UNCHANGED <<lock, waited, spent, kills>>
  BY DEF Spawn, Locked
<1>2. /\ process # NoPid => Resting(process) /\ process \in Pids
      /\ p # process
  BY <1>1, HolderKnows, NonesAssumption DEF Resting, NonesAssumption
<1>3. \A q \in Pids : child'[q] = IF q = p THEN "loading" ELSE IF q = process THEN "gone" ELSE child[q]
  BY DEF Spawn
<1>4. child' \in [Pids -> {"gone", "loading", "idle", "working", "dead"}]
  BY DEF Spawn, Inv, TypeOK
<1>5. /\ work' \in [Pids -> Requests \cup {NoRequest}]
      /\ inbox' \in [Pids -> Requests \cup {NoRequest}]
      /\ outbox' \in [Pids -> Seq(Messages)] /\ \A q \in Pids : Len(outbox'[q]) <= 1
      /\ \A q \in Pids : IF q = process
                        THEN work'[q] = NoRequest /\ inbox'[q] = NoRequest /\ outbox'[q] = <<>>
                        ELSE work'[q] = work[q] /\ inbox'[q] = inbox[q] /\ outbox'[q] = outbox[q]
  <2>1. <<>> \in Seq(Messages) /\ Len(<<>>) <= 1
    OBVIOUS
  <2>2. CASE process = NoPid
    <3>1. UNCHANGED <<work, inbox, outbox>>
      BY <2>2 DEF Spawn
    <3>2. QED
      BY <2>2, <3>1, NonesAssumption DEF Inv, TypeOK, NonesAssumption
  <2>3. CASE process # NoPid
    <3>1. /\ work' = [work EXCEPT ![process] = NoRequest]
          /\ inbox' = [inbox EXCEPT ![process] = NoRequest]
          /\ outbox' = [outbox EXCEPT ![process] = <<>>]
      BY <2>3 DEF Spawn
    <3>2. QED
      BY <1>2, <2>1, <2>3, <3>1 DEF Inv, TypeOK
  <2>4. QED
    BY <2>2, <2>3
<1>6. OrphanInv'
  BY <1>1, <1>2, <1>3, <1>5 DEF Inv, OrphanInv
<1>7. OneWorker'
  BY <1>1, <1>3 DEF Inv, OneWorker
<1>8. Booting(process)'
  BY <1>1, <1>2, <1>3, <1>5 DEF Inv, OrphanInv, Booting
<1> DEFINE next == [caller[c] EXCEPT !.pc = "boot"]
<1>9. "boot" \in Steps /\ "second" \in Stages /\ "boot" \in Locked
  BY DEF Steps, Stages, Locked
<1>10. next \in CallerType /\ next.pc = "boot"
  BY <1>9, MovesType
<1>11. caller' = [caller EXCEPT ![c] = next]
  BY DEF Spawn, Move, Inv, TypeOK
<1> HIDE DEF next
<1>12. TypeOK'
  BY <1>1, <1>4, <1>5, <1>10, <1>11 DEF Inv, TypeOK
<1>13. process' # NoPid
  BY <1>1, NonesAssumption DEF NonesAssumption
<1>14. QED
  BY <1>1, <1>6, <1>7, <1>8, <1>9, <1>10, <1>11, <1>12, <1>13, HoldInv

\* A holder that goes without a word to a worker at rest.
LEMMA LeaveInv ==
    ASSUME Inv, NEW c \in Callers, caller[c].pc \in Locked, Release(c),
           process' = process, Resting(process)', ready' = ready,
           UNCHANGED <<child, work, inbox>>,
           outbox' \in [Pids -> Seq(Messages)], \A p \in Pids : Len(outbox'[p]) <= 1,
           \A p \in Pids : p # process => outbox'[p] = outbox[p]
    PROVE  Inv'
<1>1. kills' = kills /\ spent' = spent /\ lock' = NoCaller /\ waited' = 0
  BY DEF Release
<1>2. /\ caller' \in [Callers -> CallerType]
      /\ \A d \in Callers : d # c => caller'[d] = caller[d]
      /\ caller'[c].pc = "idle"
  BY IdleInCallerType DEF Release, Leave, Inv, TypeOK
<1>3. OrphanInv' /\ OneWorker'
  BY <1>1 DEF Inv, OrphanInv, OneWorker
<1>4. TypeOK'
  BY <1>1, <1>2 DEF Inv, TypeOK
<1>5. caller'[c].pc \notin Locked /\ process' \in Pids \cup {NoPid} /\ ready' \in BOOLEAN
  BY <1>2 DEF Locked, Inv, TypeOK
<1>6. QED
  BY <1>1, <1>2, <1>3, <1>4, <1>5, ReleaseInv

LEMMA BootEofInv ==
    ASSUME Inv, NEW c \in Callers, BootEof(c)
    PROVE  Inv'
<1>1. caller[c].pc \in Locked /\ Release(c) /\ outbox[process] = <<>> /\ ~Alive(process)
  BY DEF BootEof, Locked
<1>2. Booting(process)
  BY <1>1, HolderKnows DEF BootEof
<1>3. UNCHANGED <<process, ready, child, work, inbox, outbox>>
  BY DEF BootEof, executor, pipes
<1>4. Resting(process)'
  BY <1>1, <1>2, <1>3 DEF Booting, Resting
<1>5. QED
  BY <1>1, <1>3, <1>4, LeaveInv DEF Inv, TypeOK

LEMMA SendInv ==
    ASSUME Inv, NEW c \in Callers, NEW r \in Requests, Send(c, r)
    PROVE  Inv'
<1>1. /\ caller[c].pc = "send" /\ caller[c].pc \in Locked
      /\ inbox' = [inbox EXCEPT ![process] = r]
      /\ UNCHANGED <<lock, process, ready, child, work, outbox, waited, spent, kills>>
  BY DEF Send, Locked, executor
<1>2. process \in Pids /\ Resting(process) /\ process # NoPid
  BY <1>1, HolderKnows, NonesAssumption DEF NonesAssumption
<1>3. /\ inbox' \in [Pids -> Requests \cup {NoRequest}] /\ inbox'[process] = r
      /\ \A q \in Pids : q # process => inbox'[q] = inbox[q]
  BY <1>1, <1>2 DEF Inv, TypeOK
<1>4. OrphanInv' /\ OneWorker'
  BY <1>1, <1>3 DEF Inv, OrphanInv, OneWorker
<1>5. Serving(process, r)'
  BY <1>1, <1>2, <1>3 DEF Resting, Serving
<1> DEFINE next == [pc |-> "sending", stage |-> "request", wants |-> caller[c].wants, request |-> r]
<1>6. next \in CallerType /\ next.pc = "sending" /\ next.request = r /\ next.pc \in Locked
  BY DEF Inv, TypeOK, CallerType, Steps, Stages, Locked
<1>7. caller' = [caller EXCEPT ![c] = next]
  BY DEF Send
<1> HIDE DEF next
<1>8. TypeOK'
  BY <1>1, <1>3, <1>6, <1>7 DEF Inv, TypeOK
<1>9. QED
  BY <1>1, <1>2, <1>4, <1>5, <1>6, <1>7, <1>8, HoldInv

LEMMA SendDoneInv ==
    ASSUME Inv, NEW c \in Callers, SendDone(c)
    PROVE  Inv'
<1>1. /\ caller[c].pc = "sending" /\ caller[c].pc \in Locked
      /\ UNCHANGED <<lock, process, ready, child, work, inbox, outbox, waited, spent, kills>>
  BY DEF SendDone, Locked, executor, pipes
<1>2. /\ process \in Pids /\ process # NoPid
      /\ Serving(process, caller[c].request)
  BY <1>1, HolderKnows, NonesAssumption DEF NonesAssumption
<1>3. OrphanInv' /\ OneWorker'
  BY <1>1 DEF Inv, OrphanInv, OneWorker
<1>4. "wait" \in Steps /\ "second" \in Stages /\ "wait" \in Locked
  BY DEF Steps, Stages, Locked
<1>5. PICK next \in CallerType : /\ next.pc = "wait" /\ next.request = caller[c].request
                                /\ caller' = [caller EXCEPT ![c] = next]
  <2> DEFINE new == [caller[c] EXCEPT !.pc = "wait"]
  <2>1. new \in CallerType /\ new.pc = "wait" /\ new.request = caller[c].request
    BY <1>4, MovesType
  <2>2. caller' = [caller EXCEPT ![c] = new]
    BY DEF SendDone, Move, Inv, TypeOK
  <2> HIDE DEF new
  <2>3. QED
    BY <2>1, <2>2
<1>7. TypeOK'
  BY <1>1, <1>5 DEF Inv, TypeOK
<1>8. Serving(process, next.request)'
  BY <1>1, <1>2, <1>5 DEF Serving
<1>9. QED
  BY <1>1, <1>2, <1>3, <1>4, <1>5, <1>7, <1>8, HoldInv

LEMMA ReceiveInv ==
    ASSUME Inv, NEW c \in Callers, Receive(c)
    PROVE  Inv'
<1>1. caller[c].pc = "wait" /\ caller[c].pc \in Locked /\ Release(c) /\ outbox[process] # <<>>
  BY DEF Receive, Locked
<1>2. Serving(process, caller[c].request) /\ process \in Pids
  BY <1>1, HolderKnows
<1>3. CASE Stop
  BY <1>1, <1>3, GiveUpInv
<1>4. CASE /\ outbox' = [outbox EXCEPT ![process] = Tail(@)]
           /\ UNCHANGED <<executor, child, work, inbox>>
  <2>1. outbox[process] \in Seq(Messages) /\ Len(outbox[process]) <= 1
    BY <1>2 DEF Inv, TypeOK
  <2>2. Tail(outbox[process]) = <<>>
    BY <1>1, <2>1
  <2>3. <<>> \in Seq(Messages) /\ Len(<<>>) <= 1
    OBVIOUS
  <2>4. /\ outbox' \in [Pids -> Seq(Messages)] /\ \A p \in Pids : Len(outbox'[p]) <= 1
        /\ outbox'[process] = <<>>
        /\ \A p \in Pids : p # process => outbox'[p] = outbox[p]
    BY <1>2, <1>4, <2>2, <2>3 DEF Inv, TypeOK
  <2>5. Resting(process)'
    BY <1>1, <1>2, <1>4, <2>4 DEF Serving, Resting, executor
  <2>6. QED
    BY <1>1, <1>4, <2>4, <2>5, LeaveInv DEF executor
<1>5. QED
  BY <1>3, <1>4 DEF Receive

LEMMA RequestingInv ==
    ASSUME Inv, NEW c \in Callers, Requesting(c)
    PROVE  Inv'
<1>1. CASE ReadFlags(c) \/ ReadAlive(c)
  BY <1>1, AskingInv
<1>2. CASE Acquire(c)
  BY <1>2, AcquireInv
<1>3. CASE CheckReady(c) \/ \E p \in Pids : Spawn(c, p)
  BY <1>3, CheckReadyInv, SpawnInv
<1>4. CASE BootMessage(c) \/ BootEof(c)
  BY <1>4, BootMessageInv, BootEofInv
<1>5. CASE BootTimeout(c) \/ SendFails(c) \/ Timeout(c) \/ ReceiveEof(c)
  <2>1. caller[c].pc \in Locked /\ Stop /\ Release(c)
    BY <1>5 DEF BootTimeout, SendFails, Timeout, ReceiveEof, Locked
  <2>2. QED
    BY <2>1, GiveUpInv
<1>6. CASE (\E r \in Requests : Send(c, r)) \/ SendDone(c)
  BY <1>6, SendInv, SendDoneInv
<1>7. CASE Receive(c)
  BY <1>7, ReceiveInv
<1>8. QED
  BY <1>1, <1>2, <1>3, <1>4, <1>5, <1>6, <1>7 DEF Requesting

(***************************************************************************)
(* Steps of the worker processes, of the clock and of the operating system.*)
(***************************************************************************)
\* A worker the executor knows changes without breaking what its holder knows.
LEMMA WorkerStepInv ==
    ASSUME Inv, NEW p \in Pids,
           UNCHANGED <<lock, executor, caller, waited, spent, kills>>,
           child' \in [Pids -> {"gone", "loading", "idle", "working", "dead"}],
           work' \in [Pids -> Requests \cup {NoRequest}],
           inbox' \in [Pids -> Requests \cup {NoRequest}],
           outbox' \in [Pids -> Seq(Messages)], \A q \in Pids : Len(outbox'[q]) <= 1,
           \A q \in Pids : q # p => /\ child'[q] = child[q] /\ work'[q] = work[q]
                                  /\ inbox'[q] = inbox[q] /\ outbox'[q] = outbox[q],
           Alive(p)' => Alive(p),
           work'[p] # NoRequest => child'[p] = "working",
           p # process => inbox'[p] = NoRequest /\ outbox'[p] = <<>>,
           p = process =>
              /\ Booting(p) => Booting(p)'
              /\ Resting(p) => Resting(p)'
              /\ \A r \in Requests \cup {NoRequest} : Serving(p, r) => Serving(p, r)'
    PROVE  Inv'
<1>1. UNCHANGED <<process, ready>>
  BY DEF executor
<1>2. TypeOK' /\ LockInv'
  BY <1>1 DEF Inv, TypeOK, LockInv
<1>3. OrphanInv' /\ OneWorker'
  BY <1>1 DEF Inv, OrphanInv, OneWorker
<1>4. WorkerInv'
  <2>1. CASE p = process
    <3>1. /\ Booting(process) => Booting(process)'
          /\ Resting(process) => Resting(process)'
      BY <1>1, <2>1 DEF Booting, Resting
    <3>2. \A c \in Callers : Serving(process, caller[c].request) => Serving(process, caller[c].request)'
      <4>1. \A c \in Callers : caller[c].request \in Requests \cup {NoRequest}
        BY DEF Inv, TypeOK, CallerType
      <4>2. QED
        BY <1>1, <2>1, <4>1 DEF Serving
    <3>3. QED
      BY <1>1, <3>1, <3>2 DEF Inv, WorkerInv
  <2>2. CASE p # process
    BY <1>1, <2>2 DEF Inv, TypeOK, WorkerInv, Booting, Resting, Serving
  <2>3. QED
    BY <2>1, <2>2
<1>5. QED
  BY <1>2, <1>3, <1>4 DEF Inv

\* A message a worker sends into an empty pipe.
LEMMA SaysType ==
    ASSUME Inv, NEW p \in Pids, outbox[p] = <<>>,
           NEW kind \in {"ready", "startup_error", "result", "error", "fatal"},
           NEW r \in Requests \cup {NoRequest}, Says(p, kind, r)
    PROVE  /\ outbox' \in [Pids -> Seq(Messages)] /\ \A q \in Pids : Len(outbox'[q]) <= 1
           /\ \A q \in Pids : q # p => outbox'[q] = outbox[q]
           /\ outbox'[p] # <<>> /\ Head(outbox'[p]).request = r
<1> DEFINE m == [kind |-> kind, request |-> r]
<1>1. m \in Messages /\ m.request = r
  BY DEF Messages
<1>2. outbox' = [outbox EXCEPT ![p] = Append(outbox[p], m)]
  BY DEF Says
<1> HIDE DEF m
<1>3. Append(outbox[p], m) = <<m>>
  BY <1>1
<1>4. <<m>> \in Seq(Messages) /\ Len(<<m>>) = 1 /\ Head(<<m>>) = m /\ <<m>> # <<>>
  BY <1>1
<1>5. QED
  BY <1>1, <1>2, <1>3, <1>4 DEF Inv, TypeOK

LEMMA KnownWorker ==
    ASSUME Inv, process # NoPid
    PROVE  \/ Booting(process) \/ Resting(process)
           \/ \E r \in Requests \cup {NoRequest} : Serving(process, r)
<1>1. CASE \E c \in Callers : At(c, "boot")
  BY <1>1 DEF Inv, WorkerInv
<1>2. ASSUME NEW c \in Callers, caller[c].pc \in {"sending", "wait"}
      PROVE  \E r \in Requests \cup {NoRequest} : Serving(process, r)
  <2>1. caller[c].request \in Requests \cup {NoRequest}
    BY DEF Inv, TypeOK, CallerType
  <2>2. QED
    BY <1>2, <2>1 DEF Inv, WorkerInv
<1>3. CASE \A c \in Callers : caller[c].pc \notin {"boot", "sending", "wait"}
  BY <1>3 DEF Inv, WorkerInv
<1>4. QED
  BY <1>1, <1>2, <1>3

LEMMA LoadInv ==
    ASSUME Inv, NEW p \in Pids, Load(p)
    PROVE  Inv'
<1>1. /\ p = process /\ process # NoPid /\ child[p] = "loading"
      /\ UNCHANGED <<lock, executor, caller, work, inbox, waited, spent, kills>>
  BY NonesAssumption DEF Load, Orphan, NonesAssumption
<1>2. Booting(p)
  BY <1>1, KnownWorker DEF Resting, Serving
<1>3. PICK kind \in {"ready", "startup_error"} : Says(p, kind, NoRequest)
  BY DEF Load
<1>4. /\ outbox' \in [Pids -> Seq(Messages)] /\ \A q \in Pids : Len(outbox'[q]) <= 1
      /\ \A q \in Pids : q # p => outbox'[q] = outbox[q]
  <2>1. outbox[p] = <<>>
    BY <1>1, <1>2 DEF Booting
  <2>2. NoRequest \in Requests \cup {NoRequest}
    OBVIOUS
  <2>3. kind \in {"ready", "startup_error", "result", "error", "fatal"}
    OBVIOUS
  <2>4. QED
    BY <1>3, <2>1, <2>2, <2>3, SaysType
<1>5. /\ child' \in [Pids -> {"gone", "loading", "idle", "working", "dead"}]
      /\ child'[p] \in {"idle", "dead"}
      /\ \A q \in Pids : q # p => child'[q] = child[q]
  BY DEF Load, Inv, TypeOK
<1>6. Booting(p)'
  BY <1>1, <1>2, <1>5 DEF Booting
<1>7. ~Resting(p) /\ \A r \in Requests \cup {NoRequest} : ~Serving(p, r)
  BY <1>1 DEF Resting, Serving
<1>8. /\ work' \in [Pids -> Requests \cup {NoRequest}]
      /\ inbox' \in [Pids -> Requests \cup {NoRequest}]
      /\ work'[p] = NoRequest
  BY <1>1, <1>2 DEF Booting, Inv, TypeOK
<1>9. Alive(p)' => Alive(p)
  BY <1>1
<1>10. QED
  BY <1>1, <1>4, <1>5, <1>6, <1>7, <1>8, <1>9, WorkerStepInv

LEMMA TakeInv ==
    ASSUME Inv, NEW p \in Pids, Take(p)
    PROVE  Inv'
<1>1. /\ child[p] = "idle" /\ inbox[p] # NoRequest
      /\ UNCHANGED <<lock, executor, caller, outbox, waited, spent, kills>>
  BY DEF Take
<1>2. /\ child' \in [Pids -> {"gone", "loading", "idle", "working", "dead"}]
      /\ work' \in [Pids -> Requests \cup {NoRequest}]
      /\ inbox' \in [Pids -> Requests \cup {NoRequest}]
      /\ child'[p] = "working" /\ work'[p] = inbox[p] /\ inbox'[p] = NoRequest
      /\ \A q \in Pids : q # p => /\ child'[q] = child[q] /\ work'[q] = work[q]
                                /\ inbox'[q] = inbox[q]
  BY DEF Take, Inv, TypeOK
<1>3. p = process
  BY <1>1 DEF Inv, OrphanInv
<1>4. /\ ~Booting(p) /\ ~Resting(p)
      /\ \A r \in Requests \cup {NoRequest} : Serving(p, r) => Serving(p, r)'
  BY <1>1, <1>2 DEF Booting, Resting, Serving
<1>5. /\ outbox' \in [Pids -> Seq(Messages)] /\ \A q \in Pids : Len(outbox'[q]) <= 1
      /\ \A q \in Pids : outbox'[q] = outbox[q]
      /\ Alive(p)' => Alive(p)
  BY <1>1 DEF Inv, TypeOK
<1>6. QED
  BY <1>1, <1>2, <1>3, <1>4, <1>5, WorkerStepInv

LEMMA FinishInv ==
    ASSUME Inv, NEW p \in Pids, Finish(p)
    PROVE  Inv'
<1>1. /\ child[p] = "working" /\ p = process /\ process # NoPid
      /\ UNCHANGED <<lock, executor, caller, inbox, waited, spent, kills>>
  BY NonesAssumption DEF Finish, Orphan, NonesAssumption
<1>2. PICK kind \in {"result", "error", "fatal"} :
          /\ Says(p, kind, work[p])
          /\ child' = [child EXCEPT ![p] = IF kind = "fatal" THEN "dead" ELSE "idle"]
  BY DEF Finish
<1>3. /\ child' \in [Pids -> {"gone", "loading", "idle", "working", "dead"}]
      /\ work' \in [Pids -> Requests \cup {NoRequest}]
      /\ child'[p] \in {"idle", "dead"} /\ work'[p] = NoRequest
      /\ \A q \in Pids : q # p => child'[q] = child[q] /\ work'[q] = work[q]
  BY <1>2 DEF Finish, Inv, TypeOK
<1>4. PICK r \in Requests \cup {NoRequest} : Serving(p, r)
  BY <1>1, KnownWorker DEF Booting, Resting
<1>5. outbox[p] = <<>> /\ inbox[p] = NoRequest
  BY <1>1, <1>4 DEF Serving
<1>6. /\ outbox' \in [Pids -> Seq(Messages)] /\ \A q \in Pids : Len(outbox'[q]) <= 1
      /\ \A q \in Pids : q # p => outbox'[q] = outbox[q]
      /\ outbox'[p] # <<>> /\ Head(outbox'[p]).request = work[p]
  <2>1. work[p] \in Requests \cup {NoRequest}
    BY DEF Inv, TypeOK
  <2>2. kind \in {"ready", "startup_error", "result", "error", "fatal"}
    OBVIOUS
  <2>3. QED
    BY <1>2, <1>5, <2>1, <2>2, SaysType
<1>7. /\ ~Booting(p) /\ ~Resting(p)
      /\ \A q \in Requests \cup {NoRequest} : Serving(p, q) => Serving(p, q)'
  BY <1>1, <1>3, <1>5, <1>6 DEF Booting, Resting, Serving
<1>8. /\ inbox' \in [Pids -> Requests \cup {NoRequest}]
      /\ \A q \in Pids : inbox'[q] = inbox[q]
      /\ Alive(p)' => Alive(p)
  BY <1>1 DEF Inv, TypeOK
<1>9. QED
  BY <1>1, <1>3, <1>6, <1>7, <1>8, WorkerStepInv

LEMMA DieInv ==
    ASSUME Inv, NEW p \in Pids, Die(p)
    PROVE  Inv'
<1>1. Alive(p) /\ UNCHANGED <<lock, executor, caller, waited, spent, kills>>
  BY DEF Die
<1>2. <<>> \in Seq(Messages) /\ Len(<<>>) <= 1
  OBVIOUS
<1>3. /\ child' \in [Pids -> {"gone", "loading", "idle", "working", "dead"}]
      /\ work' \in [Pids -> Requests \cup {NoRequest}]
      /\ inbox' \in [Pids -> Requests \cup {NoRequest}]
      /\ ~Alive(p)' /\ work'[p] = NoRequest /\ inbox'[p] = NoRequest
      /\ \A q \in Pids : q # p => /\ child'[q] = child[q] /\ work'[q] = work[q]
                                /\ inbox'[q] = inbox[q]
  BY DEF Die, Reaped, Inv, TypeOK
<1>4. /\ outbox' \in [Pids -> Seq(Messages)] /\ \A q \in Pids : Len(outbox'[q]) <= 1
      /\ \A q \in Pids : q # p => outbox'[q] = outbox[q]
      /\ p # process => outbox'[p] = <<>>
      /\ p = process => outbox'[p] = outbox[p] /\ child'[p] = "dead"
  BY <1>2 DEF Die, Orphan, Reaped, Inv, TypeOK
<1>5. ASSUME p = process
      PROVE  /\ Booting(p) => Booting(p)'
             /\ Resting(p) => Resting(p)'
             /\ \A r \in Requests \cup {NoRequest} : Serving(p, r) => Serving(p, r)'
  BY <1>3, <1>4, <1>5 DEF Booting, Resting, Serving
<1>6. QED
  BY <1>1, <1>3, <1>4, <1>5, WorkerStepInv
LEMMA TickInv ==
    ASSUME Inv, Tick
    PROVE  Inv'
<1>1. /\ UNCHANGED <<lock, process, ready, caller, child, work, inbox, outbox, kills>>
      /\ waited' = waited + 1 /\ spent' \in {Untimed, spent + 1}
      /\ spent = Untimed => spent' = Untimed
  BY DEF Tick, executor, pipes
<1>2. TypeOK'
  BY <1>1 DEF Inv, TypeOK, Untimed
<1>3. LockInv' /\ OrphanInv' /\ OneWorker'
  BY <1>1 DEF Inv, LockInv, OrphanInv, OneWorker
<1>4. WorkerInv'
  BY <1>1 DEF Inv, WorkerInv, Booting, Resting, Serving
<1>5. QED
  BY <1>2, <1>3, <1>4 DEF Inv

\* The next API process starts with no request, no lock and no worker.
LEMMA ReplacedInv ==
    ASSUME Replaced, process' = NoPid
    PROVE  /\ caller' \in [Callers -> CallerType] /\ lock' = NoCaller
           /\ waited' = 0 /\ spent' = Restarted
           /\ LockInv' /\ WorkerInv'
<1>1. /\ caller' \in [Callers -> CallerType]
      /\ \A c \in Callers : caller'[c].pc = "idle"
      /\ lock' = NoCaller /\ waited' = 0 /\ spent' = Restarted
  BY IdleInCallerType DEF Replaced
<1>2. LockInv'
  BY <1>1, NonesAssumption DEF LockInv, Locked, NonesAssumption
<1>3. WorkerInv'
  BY DEF WorkerInv
<1>4. QED
  BY <1>1, <1>2, <1>3

LEMMA AbortInv ==
    ASSUME Inv, GunicornAborts
    PROVE  Inv'
<1>1. Stop /\ Replaced /\ kills' = kills
  BY DEF GunicornAborts
<1>2. /\ process' = NoPid /\ ready' = FALSE
      /\ child' \in [Pids -> {"gone", "loading", "idle", "working", "dead"}]
      /\ work' \in [Pids -> Requests \cup {NoRequest}]
      /\ inbox' \in [Pids -> Requests \cup {NoRequest}]
      /\ outbox' \in [Pids -> Seq(Messages)] /\ \A p \in Pids : Len(outbox'[p]) <= 1
      /\ OrphanInv' /\ OneWorker'
  BY <1>1, StopInv
<1>3. /\ caller' \in [Callers -> CallerType] /\ lock' = NoCaller
      /\ waited' = 0 /\ spent' = Restarted
      /\ LockInv' /\ WorkerInv'
  BY <1>1, <1>2, ReplacedInv
<1>4. TypeOK'
  BY <1>1, <1>2, <1>3 DEF Inv, TypeOK, Restarted
<1>5. QED
  BY <1>2, <1>3, <1>4 DEF Inv

LEMMA KillInv ==
    ASSUME Inv, Kill
    PROVE  Inv'
<1>1. /\ process' = NoPid /\ ready' = FALSE /\ Replaced
      /\ child' = [p \in Pids |-> IF p = process /\ ~Alive(p) THEN "gone" ELSE child[p]]
      /\ work' = work
      /\ inbox' = [p \in Pids |-> NoRequest]
      /\ outbox' = [p \in Pids |-> <<>>]
      /\ kills' = kills + 1 /\ kills < MaxKills
  BY DEF Kill
<1>2. /\ caller' \in [Callers -> CallerType] /\ lock' = NoCaller
      /\ waited' = 0 /\ spent' = Restarted
      /\ LockInv' /\ WorkerInv'
  BY <1>1, ReplacedInv
<1>3. kills' \in 0 .. MaxKills /\ kills' # 0
  BY <1>1, TimeoutsAssumption DEF Inv, TypeOK, TimeoutsAssumption
<1>4. <<>> \in Seq(Messages) /\ Len(<<>>) <= 1
  OBVIOUS
<1>5. /\ outbox' \in [Pids -> Seq(Messages)] /\ \A p \in Pids : Len(outbox'[p]) <= 1
      /\ child' \in [Pids -> {"gone", "loading", "idle", "working", "dead"}]
      /\ inbox' \in [Pids -> Requests \cup {NoRequest}]
  BY <1>1, <1>4 DEF Inv, TypeOK
<1>6. TypeOK'
  BY <1>1, <1>2, <1>3, <1>5 DEF Inv, TypeOK, Restarted
<1>7. OrphanInv'
  BY <1>1 DEF Inv, OrphanInv
<1>8. OneWorker'
  BY <1>3 DEF OneWorker
<1>9. QED
  BY <1>2, <1>6, <1>7, <1>8 DEF Inv

LEMMA NextInv == Inv /\ [Next]_vars => Inv'
<1> SUFFICES ASSUME Inv, [Next]_vars PROVE Inv'
  OBVIOUS
<1>1. ASSUME NEW c \in Callers,
             (\E wants \in {"infer", "readyz"} : Arrive(c, wants)) \/ Requesting(c)
      PROVE  Inv'
  BY <1>1, AskingInv, RequestingInv
<1>2. ASSUME NEW p \in Pids, Load(p) \/ Take(p) \/ Finish(p) \/ Die(p)
      PROVE  Inv'
  BY <1>2, LoadInv, TakeInv, FinishInv, DieInv
<1>3. CASE Tick \/ GunicornAborts \/ Kill
  BY <1>3, TickInv, AbortInv, KillInv
<1>4. CASE UNCHANGED vars
  <2>1. UNCHANGED <<lock, process, ready, caller, child, work, inbox, outbox, waited, spent, kills>>
    BY <1>4 DEF vars, executor, pipes
  <2>2. TypeOK'
    BY <2>1 DEF Inv, TypeOK
  <2>3. LockInv' /\ OrphanInv' /\ OneWorker'
    BY <2>1 DEF Inv, LockInv, OrphanInv, OneWorker
  <2>4. WorkerInv'
    BY <2>1 DEF Inv, WorkerInv, Booting, Resting, Serving
  <2>5. QED
    BY <2>2, <2>3, <2>4 DEF Inv
<1>5. QED
  BY <1>1, <1>2, <1>3, <1>4 DEF Next

LEMMA Invariance == Spec => []Inv
BY InitInv, NextInv, PTL DEF Spec

(***************************************************************************)
(* The theorems.                                                           *)
(***************************************************************************)
\* What the holder of the lock is doing, when the executor's worker computes.
LEMMA InvGivesNoAbandonedWork == Inv => NoAbandonedWork
<1> SUFFICES ASSUME Inv, NEW p \in Pids, child[p] = "working", p = process
             PROVE  \E c \in Callers : /\ lock = c
                                       /\ caller[c].pc \in {"sending", "wait"}
                                       /\ caller[c].request = work[p]
  BY DEF NoAbandonedWork
<1>1. process # NoPid /\ ~Booting(process) /\ ~Resting(process)
  BY NonesAssumption DEF Booting, Resting, NonesAssumption
<1>2. PICK c \in Callers : caller[c].pc \in {"sending", "wait"}
  BY <1>1 DEF Inv, WorkerInv
<1>3. Serving(process, caller[c].request) /\ lock = c
  BY <1>1, <1>2 DEF Inv, WorkerInv, LockInv, Locked
<1>4. QED
  BY <1>2, <1>3 DEF Serving

\* What the holder of the lock waits for is what its worker was sent.
LEMMA InvGivesNoStaleAnswer == Inv => NoStaleAnswer
<1> SUFFICES ASSUME Inv, NEW c \in Callers, caller[c].pc = "wait", outbox[process] # <<>>
             PROVE  Head(outbox[process]).request = caller[c].request
  BY DEF NoStaleAnswer
<1>1. Serving(process, caller[c].request)
  BY HolderKnows DEF Locked
<1>2. QED
  BY <1>1 DEF Serving

\* Type correctness of the executor, for any number of request threads, worker
\* processes and requests: in particular a worker never has two messages under way.
THEOREM ExecutorTypeCorrect == Spec => []TypeOK
<1>1. Inv => TypeOK
  BY DEF Inv
<1>2. QED
  BY <1>1, Invariance, PTL

\* One model in memory (utils/inference_executor.py, _start_locked stops the old
\* worker first): without a SIGKILL of the API no second worker is ever alive.
THEOREM OneWorkerAlive == Spec => []OneWorker
<1>1. Inv => OneWorker
  BY DEF Inv
<1>2. QED
  BY <1>1, Invariance, PTL

\* The executor's worker computes only for the request that holds the lock and
\* still waits (utils/inference_executor.py, _request): no timeout, failed send or
\* abort leaves a computation behind.
THEOREM WorkIsAwaited == Spec => []NoAbandonedWork
BY InvGivesNoAbandonedWork, Invariance, PTL

\* The answer in the pipe is the answer to the request that reads it, whatever
\* timed out or died before (utils/inference_executor.py, _request).
THEOREM AnswersMatch == Spec => []NoStaleAnswer
BY InvGivesNoStaleAnswer, Invariance, PTL
=============================================================================
