-------------------------- MODULE AdmissionControl --------------------------
(***************************************************************************)
(* The boundary every request of the Stage 1 API passes (utils/security.py):*)
(* checks of the request itself, one token bucket for each identity and    *)
(* category, and a bounded semaphore around the heavy routes, whose permit *)
(* Flask gives back in after_request or, when that is not reached, in      *)
(* teardown_request.                                                       *)
(*                                                                         *)
(* Time is the monotonic clock in ticks, Second of them to a second, for    *)
(* Retry-After is told in whole seconds.  Tokens are counted in parts, One *)
(* of them to a request, so that a tick may earn less than a token.        *)
(***************************************************************************)
EXTENDS Integers, FiniteSets

CONSTANTS
    Threads,        \* names of request threads
    Servers,        \* the sets of threads a process may have (gunicorn.conf.py, or Flask alone)
    Identities,     \* fingerprints of the accepted keys, addresses of the probes
    Categories,     \* the categories requests fall into, of the three below
    Capacity,       \* MAX_CONCURRENT_HEAVY_REQUESTS
    Burst,          \* RATE_LIMIT_*_BURST, in tokens
    Rate,           \* RATE_LIMIT_*_PER_MINUTE, in parts a tick
    One,            \* the parts of a token
    Second,         \* the ticks of a second
    Dropped,        \* the 0.001 s that int(retry_after + 0.999) rounds off
    CleanupAfter,   \* 300 s: buckets are swept no more often
    ForgetAfter,    \* 900 s: a bucket unused for longer is swept
    NoKey,          \* no bucket
    MaxTime,        \* bound on the clock
    Horizon         \* the same for a process with so many threads

ASSUME CategoriesAssumption == Categories \subseteq {"heavy", "poll", "general"}
ASSUME CapacityAssumption == Capacity \in Nat \ {0}
ASSUME PolicyAssumption ==
    /\ One \in Nat \ {0}
    /\ Burst \in [Categories -> Nat \ {0}]
    /\ Rate \in [Categories -> Nat \ {0}]
ASSUME SecondAssumption == Second \in Nat \ {0} /\ Dropped \in 0 .. Second
ASSUME TimesAssumption ==
    CleanupAfter \in Nat /\ ForgetAfter \in Nat /\ MaxTime \in Nat
\* A swept bucket would have been full again (30 s of the default policies).
ASSUME ForgetsOnlyFullBuckets ==
    \A c \in Categories : Rate[c] * ForgetAfter >= Burst[c] * One
ASSUME ThreadsAssumption == IsFiniteSet(Threads) /\ Servers \subseteq SUBSET Threads
ASSUME HorizonAssumption ==
    \A S \in Servers : Horizon[Cardinality(S)] \in 0 .. MaxTime
ASSUME NoKeyAssumption == NoKey \notin Identities \X Categories

VARIABLES
    clock,      \* time.monotonic()
    bucket,     \* TokenBucketLimiter._buckets
    cleaned,    \* TokenBucketLimiter._last_cleanup
    permits,    \* HeavyRequestGate._sem
    acquired,   \* g.heavy_gate_acquired of the request each thread serves
    pc,         \* what each thread does for its request; "absent" for threads
                \* the process does not have
    key,        \* identity and category of that request
    now,        \* the time consume has read
    code,       \* the status the request was answered with, 0 before
    through,    \* history: how many requests of a key that read the clock at
                \* a given time or before it were let through
    promise     \* history: when a refused key was told to come back

limits == <<bucket, cleaned>>
history == <<through, promise>>
gate == <<permits, acquired>>
vars == <<clock, limits, gate, pc, key, now, code, history>>

Keys == Identities \X Categories
Times == 0 .. MaxTime
Category(t) == key[t][2]

\* No bucket is kept under a key: the next request gets a full one.
NoBucket == [tokens |-> -1, updated |-> 0, seen |-> 0]
Full(c) == Burst[c] * One
Least(a, b) == IF a <= b THEN a ELSE b
Most(a, b) == IF a >= b THEN a ELSE b

Init ==
    /\ clock = 0
    /\ bucket = [k \in Keys |-> NoBucket]
    /\ cleaned = 0
    /\ permits = Capacity
    /\ acquired = [t \in Threads |-> FALSE]
    /\ \E S \in Servers : pc = [t \in Threads |-> IF t \in S THEN "idle" ELSE "absent"]
    /\ key = [t \in Threads |-> NoKey]
    /\ now = [t \in Threads |-> 0]
    /\ code = [t \in Threads |-> 0]
    /\ through = [k \in Keys |-> [x \in -1 .. MaxTime |-> 0]]
    /\ promise = [k \in Keys |-> -1]

Goto(t, from, to) == pc[t] = from /\ pc' = [pc EXCEPT ![t] = to]

(***************************************************************************)
(* before_request.                                                         *)
(***************************************************************************)
\* A request for k that has a valid host, correlation id, length and key.
Admit(t, k) ==
    /\ Goto(t, "idle", "read_clock")
    /\ key' = [key EXCEPT ![t] = k]
    /\ UNCHANGED <<clock, limits, gate, now, code, history>>

\* One that has not: 400 for the host or the correlation id, 413 for the
\* length, 401 for the key, before the limiter sees it.
Reject(t) ==
    /\ Goto(t, "idle", "after")
    /\ \E refusal \in {400, 401, 413} : code' = [code EXCEPT ![t] = refusal]
    /\ UNCHANGED <<clock, limits, gate, key, now, history>>

\* An OPTIONS request passes all of this by, and Flask answers it itself.
Preflight(t) ==
    /\ Goto(t, "idle", "after")
    /\ code' = [code EXCEPT ![t] = 200]
    /\ UNCHANGED <<clock, limits, gate, key, now, history>>

\* consume reads the clock before it takes its lock.
ReadClock(t) ==
    /\ Goto(t, "read_clock", "consume")
    /\ now' = [now EXCEPT ![t] = clock]
    /\ UNCHANGED <<clock, limits, gate, key, code, history>>

\* The tokens of k at the time consume has read: a new bucket is full, an old
\* one has earned Rate since its last use and holds no more than Burst.
Earned(k, time) ==
    IF bucket[k] = NoBucket THEN Full(k[2])
    ELSE Least(Full(k[2]),
               bucket[k].tokens + Most(0, time - bucket[k].updated) * Rate[k[2]])

RetryAfter_Floor(k, tokens) ==    \* mutant: int(retry_after)
    Second * Most(1, (One - tokens) \div (Second * Rate[k[2]]))

\* Retry-After, a whole number of seconds and never 0: int(retry_after + 0.999),
\* which is not quite the ceiling, but up to Dropped less than what is missing.
RetryAfter(k, tokens) ==
    Second * Most(1, (One - tokens + (Second - Dropped) * Rate[k[2]])
                         \div (Second * Rate[k[2]]))

Swept_Recent(buckets, time) ==
    [k \in Keys |-> IF buckets[k].seen <= time THEN NoBucket ELSE buckets[k]]

\* The buckets a cleanup keeps.
Swept(buckets, time) ==
    [k \in Keys |-> IF buckets[k].seen < time - ForgetAfter THEN NoBucket ELSE buckets[k]]

\* consume, under its lock: k = key[t] uses a token it has, or is told when to
\* come back; a cleanup that is due follows.
Consume(t) ==
    LET k == key[t]
        tokens == Earned(k, now[t])
        allowed == tokens >= One
        used == [bucket EXCEPT ![k] = [tokens |-> IF allowed THEN tokens - One ELSE tokens,
                                       updated |-> now[t], seen |-> now[t]]]
        due == now[t] - cleaned > CleanupAfter
    IN
    /\ Goto(t, "consume", IF ~allowed THEN "after"
                          ELSE IF k[2] = "heavy" THEN "acquire" ELSE "handle")
    /\ code' = [code EXCEPT ![t] = IF allowed THEN 0 ELSE 429]
    /\ bucket' = IF due THEN Swept(used, now[t]) ELSE used
    /\ cleaned' = IF due THEN now[t] ELSE cleaned
    /\ through' = IF ~allowed THEN through
                   ELSE [through EXCEPT ![k] =
                            [x \in -1 .. MaxTime |-> IF x < now[t] THEN @[x] ELSE @[x] + 1]]
    /\ promise' = [promise EXCEPT ![k] =
                      IF allowed THEN -1 ELSE now[t] + RetryAfter(k, tokens)]
    /\ UNCHANGED <<clock, gate, key, now>>

Acquire_Forgets(t) ==
    /\ permits > 0 /\ Goto(t, "acquire", "handle")
    /\ permits' = permits - 1
    /\ UNCHANGED <<clock, limits, acquired, key, now, code, history>>

\* The permit is taken without blocking, and noted in the request's g.
Acquire(t) ==
    /\ permits > 0 /\ Goto(t, "acquire", "handle")
    /\ permits' = permits - 1
    /\ acquired' = [acquired EXCEPT ![t] = TRUE]
    /\ UNCHANGED <<clock, limits, key, now, code, history>>

\* 429 "server_busy".  The token is spent.
Busy(t) ==
    /\ permits = 0 /\ Goto(t, "acquire", "after")
    /\ code' = [code EXCEPT ![t] = 429]
    /\ UNCHANGED <<clock, limits, gate, key, now, history>>

(***************************************************************************)
(* The handler, after_request and teardown_request.                        *)
(***************************************************************************)
\* The handler returns, or raises an Exception that an error handler answers.
Handle(t) ==
    /\ Goto(t, "handle", "after")
    /\ \E status \in {200, 500} : code' = [code EXCEPT ![t] = status]
    /\ UNCHANGED <<clock, limits, gate, key, now, history>>

\* It is left by something else than an Exception (the SystemExit of an aborted
\* worker): no response, and no after_request.
Abandon(t) ==
    /\ Goto(t, "handle", "teardown")
    /\ UNCHANGED <<clock, limits, gate, key, now, code, history>>

\* A permit goes back once.  BoundedSemaphore refuses one too many with a
\* ValueError, which HeavyRequestGate.release drops.
Release(t) ==
    /\ permits' = IF acquired[t] /\ permits < Capacity THEN permits + 1 ELSE permits
    /\ acquired' = [acquired EXCEPT ![t] = FALSE]

AfterRequest(t) ==
    /\ Goto(t, "after", "teardown")
    /\ Release(t)
    /\ UNCHANGED <<clock, limits, key, now, code, history>>

\* The request context goes.
EndRequest(t) ==
    /\ Goto(t, "teardown", "idle")
    /\ key' = [key EXCEPT ![t] = NoKey]
    /\ now' = [now EXCEPT ![t] = 0]
    /\ code' = [code EXCEPT ![t] = 0]
    /\ UNCHANGED <<clock, limits, history>>

Teardown_KeepsPermit(t) == EndRequest(t) /\ UNCHANGED gate

Teardown(t) == EndRequest(t) /\ Release(t)

Serving == {t \in Threads : pc[t] # "absent"}

Tick ==
    /\ clock < Horizon[Cardinality(Serving)]
    /\ clock' = clock + 1
    /\ UNCHANGED <<limits, gate, pc, key, now, code, history>>

(***************************************************************************)
(* The specification.                                                      *)
(***************************************************************************)
Step(t) ==
    \/ ReadClock(t) \/ Consume(t) \/ Acquire(t) \/ Busy(t)
    \/ Handle(t) \/ Abandon(t) \/ AfterRequest(t) \/ Teardown(t)

Next ==
    \/ \E t \in Threads : Step(t) \/ Reject(t) \/ Preflight(t) \/ \E k \in Keys : Admit(t, k)
    \/ Tick

Spec == Init /\ [][Next]_vars

\* Threads keep running, and handlers end.
FairSpec == Spec /\ \A t \in Threads : WF_vars(Step(t))

(***************************************************************************)
(* Properties.                                                             *)
(***************************************************************************)
Steps == {"absent", "idle", "read_clock", "consume", "acquire", "handle", "after", "teardown"}
Holding == {t \in Threads : acquired[t]}

\* The values the variables take; a bucket holds between none and Burst tokens.
TypeOK ==
    /\ clock \in Times
    /\ bucket \in [Keys -> [tokens : Int, updated : Times, seen : Times]]
    /\ \A k \in Keys : bucket[k] = NoBucket \/ bucket[k].tokens \in 0 .. Full(k[2])
    /\ cleaned \in Times
    /\ permits \in 0 .. Capacity
    /\ acquired \in [Threads -> BOOLEAN]
    /\ pc \in [Threads -> Steps]
    /\ key \in [Threads -> Keys \cup {NoKey}]
    /\ now \in [Threads -> Times]
    /\ code \in [Threads -> {0, 200, 400, 401, 413, 429, 500}]
    /\ through \in [Keys -> [-1 .. MaxTime -> Nat]]
    /\ promise \in [Keys -> Int]

\* No permit is lost or made up, whichever way a request ends: refused before
\* or after the limiter, answered, failed or abandoned, with its release in
\* after_request, in teardown_request or in both.
PermitsConserved == permits + Cardinality(Holding) = Capacity

\* The handlers of heavy routes that run at once are never more than
\* MAX_CONCURRENT_HEAVY_REQUESTS ("bounded concurrent heavy requests").
HeavyBounded ==
    Cardinality({t \in Threads : pc[t] = "handle" /\ Category(t) = "heavy"}) <= Capacity

\* What a token bucket promises: of the requests of a key that arrive within
\* any span of time, Burst and what Rate earns in that span get through, the
\* sweeping of old buckets included ("per-identity token-bucket rate
\* limiting").  It takes the one thread gunicorn.conf.py configures: with two, a
\* thread that waits for the lock brings an old time into the bucket.
RateBound ==
    Cardinality(Serving) = 1 =>
    \A k \in Keys : \A x \in -1 .. MaxTime : \A y \in x + 1 .. MaxTime :
        (through[k][y] - through[k][x]) * One <= Full(k[2]) + (y - x - 1) * Rate[k[2]]

\* Retry-After is honest to within the rounding of security.py:232: a client that
\* comes back Dropped (a millisecond) after it has been told to, or later, with no
\* other request of its key let through in between, is not refused again.  One
\* that comes back sooner may be: int(retry_after + 0.999) can be too short.
RetryAfterHonest ==
    [][\A t \in Threads :
          (pc[t] = "consume" /\ pc'[t] # "consume"
              /\ promise[key[t]] \in 0 .. now[t] - Dropped)
              => code'[t] # 429]_vars

\* "The inference/export queue is at capacity" passes: the gate opens again.
GateReopens == (permits = 0) ~> (permits > 0)
=============================================================================
