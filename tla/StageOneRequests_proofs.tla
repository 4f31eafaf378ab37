------------------------ MODULE StageOneRequests_proofs ------------------------
(***************************************************************************)
(* What a request to Stage 1 may rely on.                                  *)
(*                                                                         *)
(* At the boundary: the gate around the heavy routes and the limiter before *)
(* it, proved for any number of threads, identities and permits and any     *)
(* policy.  PermitsConserved and HeavyBounded are invariants of Spec,       *)
(* whoever the limiter lets through; RateBound is one of the limiter, and   *)
(* its answers to the refused are honest.                                  *)
(*                                                                         *)
(* Behind it: what a client may conclude from the answer to its submission, *)
(* for any number of request threads, any number of retries, any timeouts   *)
(* and any faults of the network: the POST is sent once, so the engine made *)
(* at most one job for it (ProxyInv carries this through the exchange).     *)
(***************************************************************************)
EXTENDS AdmissionControl, ComplianceProxy, FiniteSetTheorems, TLAPS

(***************************************************************************)
(* The inductive invariant.  A thread that holds a permit is in the handler*)
(* or on its way out of the request, so a thread about to acquire holds    *)
(* none; and the handler of a heavy route is entered with a permit only.   *)
(***************************************************************************)
GateType ==
    /\ permits \in 0 .. Capacity
    /\ acquired \in [Threads -> BOOLEAN]
    /\ pc \in [Threads -> Steps]
    /\ key \in [Threads -> Keys \cup {NoKey}]
HeldInside == \A t \in Threads : acquired[t] => pc[t] \in {"handle", "after", "teardown"}
HeavyHolds ==
    \A t \in Threads : (pc[t] = "handle" /\ Category(t) = "heavy") => acquired[t]
GateInv == GateType /\ HeldInside /\ HeavyHolds /\ PermitsConserved

\* The holders are finitely many.
LEMMA HoldersFinite == IsFiniteSet(Holding) /\ Cardinality(Holding) \in Nat
<1>1. Holding \subseteq Threads
  BY DEF Holding
<1>2. IsFiniteSet(Holding)
  BY <1>1, FS_Subset, ThreadsAssumption DEF ThreadsAssumption
<1> QED
  BY <1>2, FS_CardinalityType

\* One more holder: what Acquire does.
LEMMA HolderAdded ==
    ASSUME NEW t \in Threads, acquired \in [Threads -> BOOLEAN], ~acquired[t],
           acquired' = [acquired EXCEPT ![t] = TRUE]
    PROVE  Cardinality(Holding') = Cardinality(Holding) + 1
<1>1. Holding' = Holding \cup {t} /\ t \notin Holding
  BY DEF Holding
<1> QED
  BY <1>1, HoldersFinite, FS_AddElement

\* One holder less: what Release does for a thread that has a permit.
LEMMA HolderRemoved ==
    ASSUME NEW t \in Threads, acquired \in [Threads -> BOOLEAN], acquired[t],
           acquired' = [acquired EXCEPT ![t] = FALSE]
    PROVE  Cardinality(Holding') = Cardinality(Holding) - 1
<1>1. Holding' = Holding \ {t} /\ t \in Holding
  BY DEF Holding
<1> QED
  BY <1>1, HoldersFinite, FS_RemoveElement

\* A step that leaves the gate and the keys alone, and neither enters a heavy
\* handler nor takes a holder back to before it.
LEMMA GateUntouched ==
    ASSUME GateInv, NEW t \in Threads, NEW from, NEW to \in Steps,
           Goto(t, from, to), UNCHANGED gate,
           from \notin {"handle", "after", "teardown"} \/ to \in {"handle", "after", "teardown"},
           key' \in [Threads -> Keys \cup {NoKey}],
           \A u \in Threads : u # t => key'[u] = key[u],
           to # "handle" \/ key'[t][2] # "heavy"
    PROVE  GateInv'
<1>1. GateType'
  BY DEF GateInv, GateType, Goto, gate
<1>2. HeldInside'
  BY DEF GateInv, GateType, HeldInside, Goto, gate
<1>3. HeavyHolds'
  BY DEF GateInv, GateType, HeavyHolds, Category, Goto, gate
<1>4. PermitsConserved'
  BY DEF GateInv, PermitsConserved, Holding, gate
<1> QED
  BY <1>1, <1>2, <1>3, <1>4 DEF GateInv

\* Acquire moves one permit from the semaphore to the thread.
LEMMA AcquireKeeps ==
    ASSUME GateInv, NEW t \in Threads, Acquire(t)
    PROVE  GateInv'
<1> USE DEF Acquire, Goto
<1>1. ~acquired[t]
  BY DEF GateInv, HeldInside
<1>2. GateType'
  BY CapacityAssumption DEF GateInv, GateType, Steps, CapacityAssumption
<1>3. HeldInside'
  BY DEF GateInv, GateType, HeldInside
<1>4. HeavyHolds'
  BY DEF GateInv, GateType, HeavyHolds, Category
<1>5. PermitsConserved'
  <2>1. Cardinality(Holding') = Cardinality(Holding) + 1
    BY <1>1, HolderAdded DEF GateInv, GateType
  <2>2. permits \in Int /\ permits' = permits - 1
    BY CapacityAssumption DEF GateInv, GateType, CapacityAssumption
  <2> QED
    BY <2>1, <2>2, HoldersFinite DEF GateInv, PermitsConserved
<1> QED
  BY <1>2, <1>3, <1>4, <1>5 DEF GateInv

\* Release moves it back, or does nothing for a thread without one; the
\* semaphore is never full when a thread has one to give.
LEMMA ReleaseKeeps ==
    ASSUME GateInv, NEW t \in Threads, Release(t)
    PROVE  /\ permits' \in 0 .. Capacity
           /\ acquired' \in [Threads -> BOOLEAN]
           /\ \A u \in Threads : acquired'[u] <=> acquired[u] /\ u # t
           /\ PermitsConserved'
<1>1. acquired' \in [Threads -> BOOLEAN]
      /\ \A u \in Threads : acquired'[u] <=> acquired[u] /\ u # t
  BY DEF Release, GateInv, GateType
<1>2. CASE acquired[t]
  <2>1. Cardinality(Holding') = Cardinality(Holding) - 1
    BY <1>2, HolderRemoved DEF Release, GateInv, GateType
  <2>2. t \in Holding
    BY <1>2 DEF Holding
  <2>3. Cardinality(Holding) # 0
    BY <2>2, HoldersFinite, FS_EmptySet
  <2>4. permits < Capacity
    BY <2>3, HoldersFinite, CapacityAssumption
       DEF GateInv, GateType, PermitsConserved, CapacityAssumption
  <2>5. permits' = permits + 1
    BY <1>2, <2>4 DEF Release
  <2> QED
    BY <1>1, <2>1, <2>4, <2>5, HoldersFinite, CapacityAssumption
       DEF GateInv, GateType, PermitsConserved, CapacityAssumption
<1>3. CASE ~acquired[t]
  <2>1. acquired' = acquired /\ permits' = permits
    BY <1>3 DEF Release, GateInv, GateType
  <2> QED
    BY <1>1, <2>1 DEF GateInv, GateType, PermitsConserved, Holding
<1> QED
  BY <1>2, <1>3

\* The two places a request gives its permit back.
LEMMA AfterRequestKeeps ==
    ASSUME GateInv, NEW t \in Threads, AfterRequest(t)
    PROVE  GateInv'
<1> USE DEF AfterRequest, Goto
<1>1. Release(t)
  OBVIOUS
<1>2. GateType'
  BY <1>1, ReleaseKeeps DEF GateInv, GateType, Steps
<1>3. HeldInside'
  BY <1>1, ReleaseKeeps DEF GateInv, GateType, HeldInside
<1>4. HeavyHolds'
  BY <1>1, ReleaseKeeps DEF GateInv, GateType, HeavyHolds, Category
<1> QED
  BY <1>1, <1>2, <1>3, <1>4, ReleaseKeeps DEF GateInv

LEMMA TeardownKeeps ==
    ASSUME GateInv, NEW t \in Threads, Teardown(t)
    PROVE  GateInv'
<1> USE DEF Teardown, EndRequest, Goto
<1>1. Release(t)
  OBVIOUS
<1>2. GateType'
  BY <1>1, ReleaseKeeps DEF GateInv, GateType, Steps
<1>3. HeldInside'
  BY <1>1, ReleaseKeeps DEF GateInv, GateType, HeldInside
<1>4. HeavyHolds'
  BY <1>1, ReleaseKeeps DEF GateInv, GateType, HeavyHolds, Category
<1> QED
  BY <1>1, <1>2, <1>3, <1>4, ReleaseKeeps DEF GateInv

\* GateInv is inductive.
LEMMA GateInvInit == Init => GateInv
<1> SUFFICES ASSUME Init PROVE GateInv
  OBVIOUS
<1>1. Holding = {}
  BY DEF Init, Holding
<1>2. PermitsConserved
  BY <1>1, FS_EmptySet, CapacityAssumption DEF Init, PermitsConserved, CapacityAssumption
<1>3. GateType
  BY CapacityAssumption DEF Init, GateType, Steps, CapacityAssumption
<1>4. HeldInside /\ HeavyHolds
  BY DEF Init, HeldInside, HeavyHolds
<1> QED
  BY <1>2, <1>3, <1>4 DEF GateInv

LEMMA GateInvNext == GateInv /\ [Next]_vars => GateInv'
<1> SUFFICES ASSUME GateInv, [Next]_vars PROVE GateInv'
  OBVIOUS
<1>t. key \in [Threads -> Keys \cup {NoKey}]
  BY DEF GateInv, GateType
<1>1. ASSUME NEW t \in Threads, NEW k \in Keys, Admit(t, k) PROVE GateInv'
  <2>1. Goto(t, "idle", "read_clock") /\ UNCHANGED gate
    BY <1>1 DEF Admit
  <2>2. /\ key' \in [Threads -> Keys \cup {NoKey}]
        /\ \A u \in Threads : u # t => key'[u] = key[u]
    BY <1>1, <1>t DEF Admit
  <2> QED
    BY <2>1, <2>2, GateUntouched DEF Steps
<1>2. ASSUME NEW t \in Threads, Reject(t) PROVE GateInv'
  <2>1. Goto(t, "idle", "after") /\ UNCHANGED gate /\ key' = key
    BY <1>2 DEF Reject
  <2> QED
    BY <1>t, <2>1, GateUntouched DEF Steps
<1>9. ASSUME NEW t \in Threads, Preflight(t) PROVE GateInv'
  <2>1. Goto(t, "idle", "after") /\ UNCHANGED gate /\ key' = key
    BY <1>9 DEF Preflight
  <2> QED
    BY <1>t, <2>1, GateUntouched DEF Steps
<1>3. ASSUME NEW t \in Threads, ReadClock(t) PROVE GateInv'
  <2>1. Goto(t, "read_clock", "consume") /\ UNCHANGED gate /\ key' = key
    BY <1>3 DEF ReadClock
  <2> QED
    BY <1>t, <2>1, GateUntouched DEF Steps
<1>4. ASSUME NEW t \in Threads, Consume(t) PROVE GateInv'
  <2>1. PICK to \in {"after", "acquire", "handle"} :
            Goto(t, "consume", to) /\ (to = "handle" => key[t][2] # "heavy")
    BY <1>4 DEF Consume
  <2>2. UNCHANGED gate /\ key' = key
    BY <1>4 DEF Consume
  <2> QED
    BY <1>t, <2>1, <2>2, GateUntouched DEF Steps
<1>5. ASSUME NEW t \in Threads, Busy(t) PROVE GateInv'
  <2>1. Goto(t, "acquire", "after") /\ UNCHANGED gate /\ key' = key
    BY <1>5 DEF Busy
  <2> QED
    BY <1>t, <2>1, GateUntouched DEF Steps
<1>6. ASSUME NEW t \in Threads, Handle(t) PROVE GateInv'
  <2>1. Goto(t, "handle", "after") /\ UNCHANGED gate /\ key' = key
    BY <1>6 DEF Handle
  <2> QED
    BY <1>t, <2>1, GateUntouched DEF Steps
<1>7. ASSUME NEW t \in Threads, Abandon(t) PROVE GateInv'
  <2>1. Goto(t, "handle", "teardown") /\ UNCHANGED gate /\ key' = key
    BY <1>7 DEF Abandon
  <2> QED
    BY <1>t, <2>1, GateUntouched DEF Steps
<1>8. ASSUME Tick \/ UNCHANGED vars PROVE GateInv'
  <2>1. UNCHANGED <<permits, acquired, pc, key>>
    BY <1>8 DEF Tick, vars, gate
  <2> QED
    BY <2>1 DEF GateInv, GateType, HeldInside, HeavyHolds, Category, PermitsConserved, Holding
<1> QED
  BY <1>1, <1>2, <1>3, <1>4, <1>5, <1>6, <1>7, <1>8, <1>9,
     AcquireKeeps, AfterRequestKeeps, TeardownKeeps DEF Next, Step

LEMMA GateInvAlways == Spec => []GateInv
  BY GateInvInit, GateInvNext, PTL DEF Spec

\* Whatever way requests end, every permit is with the semaphore or with one
\* request (HeavyRequestGate, and the guarded releases of after_request and
\* teardown_request).
THEOREM GateConservesPermits == Spec => []PermitsConserved
<1>1. GateInv => PermitsConserved
  BY DEF GateInv
<1> QED
  BY <1>1, GateInvAlways, PTL

\* At most MAX_CONCURRENT_HEAVY_REQUESTS handlers of heavy routes run at once.
THEOREM GateBoundsHeavyRequests == Spec => []HeavyBounded
<1>1. ASSUME GateInv PROVE HeavyBounded
  <2> DEFINE Running == {t \in Threads : pc[t] = "handle" /\ Category(t) = "heavy"}
  <2>1. Running \subseteq Holding
    BY <1>1 DEF GateInv, HeavyHolds, Holding
  <2>2. Cardinality(Running) \in Nat /\ Cardinality(Running) <= Cardinality(Holding)
    BY <2>1, HoldersFinite, FS_Subset, FS_CardinalityType
  <2>3. permits \in Nat /\ permits + Cardinality(Holding) = Capacity
    BY <1>1, CapacityAssumption DEF GateInv, GateType, PermitsConserved, CapacityAssumption
  <2> QED
    BY <2>2, <2>3, HoldersFinite DEF HeavyBounded
<1> QED
  BY <1>1, GateInvAlways, PTL
(***************************************************************************)
(* The limiter.  What a key has left at some time is Earned; a refused key *)
(* has a token when its promise says so (PromiseKept), and in a process of *)
(* one thread what was let through and what is left are together no more   *)
(* than Burst and what Rate has earned (Ledger).                           *)
(***************************************************************************)
LEMMA PolicyTypes ==
    ASSUME NEW c \in Categories
    PROVE  /\ Rate[c] \in Nat \ {0} /\ Burst[c] \in Nat \ {0} /\ One \in Nat \ {0}
           /\ Full(c) \in Nat /\ Full(c) >= One
           /\ ForgetAfter \in Nat /\ Rate[c] * ForgetAfter >= Full(c)
<1>1. Rate[c] \in Nat \ {0} /\ Burst[c] \in Nat \ {0} /\ One \in Nat \ {0}
  BY PolicyAssumption DEF PolicyAssumption
<1>2. Burst[c] * One \in Nat /\ Burst[c] * One >= One
  BY <1>1
<1> QED
  BY <1>1, <1>2, TimesAssumption, ForgetsOnlyFullBuckets
     DEF TimesAssumption, ForgetsOnlyFullBuckets, Full

\* A bucket as consume leaves it: what it holds is what was left at the time
\* it names.
Kept(b, c) ==
    /\ b = [tokens |-> b.tokens, updated |-> b.updated, seen |-> b.updated]
    /\ b.tokens \in 0 .. Full(c) /\ b.updated \in Times

\* Earned, of any bucket.
Level(b, c, time) ==
    IF b = NoBucket THEN Full(c)
    ELSE Least(Full(c), b.tokens + Most(0, time - b.updated) * Rate[c])

LEMMA EarnedIsLevel ==
    ASSUME NEW k, NEW time
    PROVE  /\ Earned(k, time) = Level(bucket[k], k[2], time)
           /\ Earned(k, time)' = Level(bucket'[k], k[2], time)
BY DEF Earned, Level

LEMMA LevelType ==
    ASSUME NEW c \in Categories, NEW b, b = NoBucket \/ Kept(b, c), NEW time \in Int
    PROVE  Level(b, c, time) \in 0 .. Full(c)
<1>1. CASE b = NoBucket
  BY <1>1, PolicyTypes DEF Level
<1>2. CASE b # NoBucket
  <2>1. b.tokens \in Nat /\ b.updated \in Int
    BY <1>2, PolicyTypes, TimesAssumption DEF Kept, Times, TimesAssumption
  <2>2. Most(0, time - b.updated) \in Nat
    BY <2>1 DEF Most
  <2>3. Most(0, time - b.updated) * Rate[c] \in Nat
    BY <2>2, PolicyTypes
  <2> HIDE DEF Most
  <2> QED
    BY <1>2, <2>1, <2>3, PolicyTypes DEF Level, Least
<1> QED
  BY <1>1, <1>2

\* What is in a bucket some time after its last use.
LEMMA LevelLater ==
    ASSUME NEW c \in Categories, NEW b, Kept(b, c), NEW time \in Times, b.updated <= time
    PROVE  /\ Level(b, c, time) <= b.tokens + (time - b.updated) * Rate[c]
           /\ \/ Level(b, c, time) = Full(c)
              \/ Level(b, c, time) = b.tokens + (time - b.updated) * Rate[c]
           /\ time - b.updated >= ForgetAfter => Level(b, c, time) = Full(c)
<1>1. b.tokens \in Nat /\ b.updated \in Nat /\ time \in Nat /\ b # NoBucket
  <2>1. b.tokens \in Nat /\ b.updated \in Nat /\ time \in Nat
    BY PolicyTypes, TimesAssumption DEF Kept, Times, TimesAssumption
  <2> QED
    BY <2>1 DEF NoBucket
<1>2. Most(0, time - b.updated) = time - b.updated
  BY <1>1 DEF Most
<1>3. PICK earned \in Nat : earned = (time - b.updated) * Rate[c]
  BY <1>1, PolicyTypes
<1>4. Level(b, c, time) = Least(Full(c), b.tokens + earned)
  BY <1>1, <1>2, <1>3 DEF Level
<1>5. time - b.updated >= ForgetAfter => earned >= Full(c)
  <2> SUFFICES ASSUME time - b.updated >= ForgetAfter PROVE earned >= Full(c)
    OBVIOUS
  <2>1. (time - b.updated) * Rate[c] >= ForgetAfter * Rate[c]
    BY <1>1, PolicyTypes
  <2> QED
    BY <1>3, <2>1, PolicyTypes
<1> QED
  BY <1>1, <1>3, <1>4, <1>5, PolicyTypes DEF Least

\* The processes there are, and what a request in the limiter is for.
ServersKept ==
    /\ Serving \in Servers
    /\ \A t \in Threads : pc[t] \in {"read_clock", "consume"} => key[t] \in Keys

LimiterType ==
    /\ clock \in Times
    /\ now \in [Threads -> Times]
    /\ DOMAIN bucket = Keys /\ \A k \in Keys : bucket[k] = NoBucket \/ Kept(bucket[k], k[2])
    /\ through \in [Keys -> [-1 .. MaxTime -> Nat]]
    /\ promise \in [Keys -> Int]
    /\ DOMAIN code = Threads

LimiterInv == GateType /\ ServersKept /\ LimiterType

LEMMA EarnedType ==
    ASSUME LimiterInv, NEW k \in Keys, NEW time \in Int
    PROVE  k[2] \in Categories /\ Earned(k, time) \in 0 .. Full(k[2])
<1>1. k[2] \in Categories
  BY DEF Keys
<1>2. bucket[k] = NoBucket \/ Kept(bucket[k], k[2])
  BY DEF LimiterInv, LimiterType
<1>3. Level(bucket[k], k[2], time) \in 0 .. Full(k[2])
  BY <1>1, <1>2, LevelType
<1> QED
  BY <1>1, <1>3, EarnedIsLevel

\* What Consume does to each bucket, for a key with tokens left.
LEMMA ConsumeBuckets ==
    ASSUME LimiterInv, NEW t \in Threads, Consume(t)
    PROVE  /\ key[t] \in Keys /\ key[t][2] \in Categories /\ now[t] \in Times
           /\ Kept(bucket'[key[t]], key[t][2]) /\ bucket'[key[t]].updated = now[t]
           /\ bucket'[key[t]].tokens = IF Earned(key[t], now[t]) >= One
                                       THEN Earned(key[t], now[t]) - One
                                       ELSE Earned(key[t], now[t])
           /\ \A j \in Keys : j # key[t] =>
                 \/ bucket'[j] = bucket[j]
                 \/ bucket'[j] = NoBucket /\ bucket[j].seen < now[t] - ForgetAfter
           /\ DOMAIN bucket' = Keys
<1> DEFINE k == key[t]
           tokens == Earned(k, now[t])
           left == IF tokens >= One THEN tokens - One ELSE tokens
           fresh == [tokens |-> left, updated |-> now[t], seen |-> now[t]]
           used == [bucket EXCEPT ![k] = fresh]
<1>1. k \in Keys /\ k[2] \in Categories /\ now[t] \in Times /\ now[t] \in Int
  BY TimesAssumption DEF Consume, Goto, LimiterInv, ServersKept, LimiterType, Keys, Times, TimesAssumption
<1>2. tokens \in 0 .. Full(k[2])
  BY <1>1, EarnedType
<1>3. left \in 0 .. Full(k[2])
  BY <1>1, <1>2, PolicyTypes
<1>4. bucket' = used \/ bucket' = Swept(used, now[t])
  BY DEF Consume
<1>5. used[k] = fresh /\ DOMAIN used = Keys /\ \A j \in Keys : j # k => used[j] = bucket[j]
  BY <1>1 DEF LimiterInv, LimiterType
<1>6. fresh.seen = now[t] /\ ~(fresh.seen < now[t] - ForgetAfter)
  BY <1>1, TimesAssumption DEF TimesAssumption
<1> HIDE DEF used
<1>7. bucket'[k] = fresh /\ DOMAIN bucket' = Keys
  BY <1>1, <1>4, <1>5, <1>6 DEF Swept
<1>8. \A j \in Keys : j # k =>
         \/ bucket'[j] = bucket[j]
         \/ bucket'[j] = NoBucket /\ bucket[j].seen < now[t] - ForgetAfter
  BY <1>4, <1>5 DEF Swept
<1>9. Kept(fresh, k[2]) /\ fresh.updated = now[t] /\ fresh.tokens = left
  BY <1>1, <1>3 DEF Kept
<1> QED
  BY <1>1, <1>7, <1>8, <1>9

\* And what it counts.
LEMMA ConsumeCounts ==
    ASSUME LimiterInv, NEW t \in Threads, Consume(t)
    PROVE  /\ through' \in [Keys -> [-1 .. MaxTime -> Nat]]
           /\ \A j \in Keys : \A x \in -1 .. MaxTime :
                 through'[j][x] = IF Earned(key[t], now[t]) >= One /\ j = key[t] /\ x >= now[t]
                                  THEN through[j][x] + 1 ELSE through[j][x]
<1> DEFINE k == key[t]
           allowed == Earned(k, now[t]) >= One
           counts == [x \in -1 .. MaxTime |-> IF x < now[t] THEN through[k][x] ELSE through[k][x] + 1]
<1>1. k \in Keys /\ now[t] \in Int /\ through \in [Keys -> [-1 .. MaxTime -> Nat]]
  <2>1. k \in Keys /\ now[t] \in Times
    BY ConsumeBuckets
  <2>2. through \in [Keys -> [-1 .. MaxTime -> Nat]]
    BY DEF LimiterInv, LimiterType
  <2> QED
    BY <2>1, <2>2, TimesAssumption DEF Times, TimesAssumption
<1>2. through' = IF ~allowed THEN through ELSE [through EXCEPT ![k] = counts]
  BY DEF Consume
<1>3. counts \in [-1 .. MaxTime -> Nat]
  <2>1. \A x \in -1 .. MaxTime : through[k][x] \in Nat
    BY <1>1
  <2> QED
    BY <2>1
<1>4. \A x \in -1 .. MaxTime :
         counts[x] = IF x >= now[t] THEN through[k][x] + 1 ELSE through[k][x]
  BY <1>1, TimesAssumption DEF TimesAssumption
<1> HIDE DEF counts, allowed
<1>5. through' \in [Keys -> [-1 .. MaxTime -> Nat]]
  BY <1>1, <1>2, <1>3
<1>6. \A j \in Keys : \A x \in -1 .. MaxTime :
         through'[j][x] = IF allowed /\ j = k /\ x >= now[t] THEN through[j][x] + 1 ELSE through[j][x]
  BY <1>1, <1>2, <1>4
<1> QED
  BY <1>5, <1>6 DEF allowed

LEMMA LimiterInvInit == Init => LimiterInv
<1> SUFFICES ASSUME Init PROVE LimiterInv
  OBVIOUS
<1>1. GateType
  BY GateInvInit DEF GateInv
<1>2. ServersKept
  <2>1. PICK S \in Servers : pc = [t \in Threads |-> IF t \in S THEN "idle" ELSE "absent"]
    BY DEF Init
  <2>2. Serving = S
    BY <2>1, ThreadsAssumption DEF Serving, ThreadsAssumption
  <2>3. \A t \in Threads : pc[t] \notin {"read_clock", "consume"}
    BY <2>1
  <2> QED
    BY <2>1, <2>2, <2>3 DEF ServersKept
<1>3. LimiterType
  <2>1. DOMAIN code = Threads
    BY DEF Init
  <2>2. through \in [Keys -> [-1 .. MaxTime -> Nat]]
    BY DEF Init
  <2> QED
    BY <2>1, <2>2, TimesAssumption DEF Init, LimiterType, Times, TimesAssumption
<1> QED
  BY <1>1, <1>2, <1>3 DEF LimiterInv

\* No step starts or ends a thread, and only Consume touches the limiter.
LEMMA OtherSteps ==
    ASSUME LimiterInv, [Next]_vars
    PROVE  /\ Serving' = Serving
           /\ ServersKept'
           /\ \/ \E t \in Threads : Consume(t)
              \/ UNCHANGED <<bucket, through, promise>>
<1>1. pc \in [Threads -> Steps] /\ key \in [Threads -> Keys \cup {NoKey}]
  BY DEF LimiterInv, GateType
<1>2. ASSUME NEW t \in Threads, NEW from, from # "absent", NEW to, to # "absent", Goto(t, from, to),
             \A u \in Threads : u # t => key'[u] = key[u],
             to \in {"read_clock", "consume"} => key'[t] \in Keys
      PROVE  Serving' = Serving /\ ServersKept'
  <2>1. Serving' = Serving
    BY <1>1, <1>2 DEF Serving, Goto
  <2>2. \A u \in Threads : pc'[u] \in {"read_clock", "consume"} => key'[u] \in Keys
    BY <1>1, <1>2 DEF Goto, LimiterInv, ServersKept
  <2> QED
    BY <2>1, <2>2 DEF LimiterInv, ServersKept
<1>3. ASSUME NEW t \in Threads, NEW k \in Keys, Admit(t, k)
      PROVE  Serving' = Serving /\ ServersKept' /\ UNCHANGED <<bucket, through, promise>>
  BY <1>1, <1>2, <1>3 DEF Admit, limits, history
<1>4. ASSUME NEW t \in Threads, Reject(t) \/ Preflight(t)
      PROVE  Serving' = Serving /\ ServersKept' /\ UNCHANGED <<bucket, through, promise>>
  <2>1. Goto(t, "idle", "after") /\ key' = key /\ UNCHANGED <<limits, history>>
    BY <1>4 DEF Reject, Preflight
  <2> QED
    BY <1>2, <2>1 DEF limits, history
<1>5. ASSUME NEW t \in Threads, ReadClock(t)
      PROVE  Serving' = Serving /\ ServersKept' /\ UNCHANGED <<bucket, through, promise>>
  <2>1. Goto(t, "read_clock", "consume") /\ key' = key /\ UNCHANGED <<limits, history>>
    BY <1>5 DEF ReadClock
  <2>2. key[t] \in Keys
    BY <2>1 DEF Goto, LimiterInv, ServersKept
  <2> QED
    BY <1>2, <2>1, <2>2 DEF limits, history
<1>6. ASSUME NEW t \in Threads, Consume(t) PROVE Serving' = Serving /\ ServersKept'
  <2>1. PICK to \in {"after", "acquire", "handle"} : Goto(t, "consume", to)
    BY <1>6 DEF Consume
  <2>2. key' = key
    BY <1>6 DEF Consume
  <2> QED
    BY <1>2, <2>1, <2>2
<1>7. ASSUME NEW t \in Threads, Acquire(t)
      PROVE  Serving' = Serving /\ ServersKept' /\ UNCHANGED <<bucket, through, promise>>
  <2>1. Goto(t, "acquire", "handle") /\ key' = key /\ UNCHANGED <<limits, history>>
    BY <1>7 DEF Acquire
  <2> QED
    BY <1>2, <2>1 DEF limits, history
<1>8. ASSUME NEW t \in Threads, Busy(t) \/ Handle(t) \/ Abandon(t) \/ AfterRequest(t)
      PROVE  Serving' = Serving /\ ServersKept' /\ UNCHANGED <<bucket, through, promise>>
  <2>1. PICK from \in {"acquire", "handle", "after"}, to \in {"after", "teardown"} :
            Goto(t, from, to)
    BY <1>8 DEF Busy, Handle, Abandon, AfterRequest
  <2>2. key' = key /\ UNCHANGED <<limits, history>>
    BY <1>8 DEF Busy, Handle, Abandon, AfterRequest
  <2> QED
    BY <1>2, <2>1, <2>2 DEF limits, history
<1>9. ASSUME NEW t \in Threads, Teardown(t)
      PROVE  Serving' = Serving /\ ServersKept' /\ UNCHANGED <<bucket, through, promise>>
  <2>1. Goto(t, "teardown", "idle") /\ UNCHANGED <<limits, history>>
    BY <1>9 DEF Teardown, EndRequest
  <2>2. \A u \in Threads : u # t => key'[u] = key[u]
    BY <1>1, <1>9 DEF Teardown, EndRequest
  <2> QED
    BY <1>2, <2>1, <2>2 DEF limits, history
<1>10. ASSUME Tick \/ UNCHANGED vars
       PROVE  Serving' = Serving /\ ServersKept' /\ UNCHANGED <<bucket, through, promise>>
  BY <1>10 DEF Tick, vars, limits, history, LimiterInv, ServersKept, Serving
<1> QED
  BY <1>3, <1>4, <1>5, <1>6, <1>7, <1>8, <1>9, <1>10 DEF Next, Step

\* Retry-After is rounded: it falls short of what is missing by no more than
\* Rate earns in the part of a second that the rounding drops.
LEMMA RetryAfterEarns ==
    ASSUME NEW k, k[2] \in Categories, NEW tokens \in Nat, tokens < One
    PROVE  /\ RetryAfter(k, tokens) \in Nat \ {0}
           /\ tokens + (RetryAfter(k, tokens) + Dropped) * Rate[k[2]] >= One
<1> DEFINE r == Rate[k[2]]
           b == Second * r
           short == Dropped * r
           m == One - tokens + (Second - Dropped) * r
           q == m \div b
<1>1. r \in Nat \ {0} /\ One \in Nat \ {0} /\ Second \in Nat \ {0} /\ Dropped \in Nat
  BY PolicyTypes, SecondAssumption DEF SecondAssumption
<1>2. b \in Nat \ {0} /\ short \in Nat /\ m = One - tokens + b - short
  BY <1>1
<1>3. RetryAfter(k, tokens) = Second * Most(1, q)
  BY DEF RetryAfter
<1>0. ASSUME NEW a \in Int, NEW c \in Nat \ {0} PROVE a \div c \in Int /\ a < ((a \div c) + 1) * c
  OBVIOUS
<1> HIDE DEF b, m
<1>4. q \in Int /\ m < (q + 1) * b
  <2>1. m \in Int
    <3> HIDE DEF short
    <3> QED
      BY <1>1, <1>2
  <2> QED
    BY <1>0, <1>2, <2>1
<1> HIDE DEF q
<1>5. Most(1, q) \in Nat \ {0} /\ Most(1, q) >= q
  BY <1>4 DEF Most
<1>6. (q + 1) * b = q * b + b
  BY <1>2, <1>4
<1>7. q * b + short >= One - tokens
  <2> HIDE DEF short
  <2> QED
    BY <1>1, <1>2, <1>4, <1>6
<1>8. Most(1, q) * b >= q * b
  BY <1>2, <1>4, <1>5
<1>9. (Second * Most(1, q) + Dropped) * r = Most(1, q) * b + short
  BY <1>1, <1>5 DEF b
<1>10. Second * Most(1, q) \in Nat \ {0}
  BY <1>1, <1>5
<1>11. tokens + (Most(1, q) * b + short) >= One
  <2> HIDE DEF short
  <2> QED
    BY <1>1, <1>2, <1>4, <1>5, <1>7, <1>8
<1> QED
  BY <1>3, <1>9, <1>10, <1>11

LEMMA LimiterTypeStep ==
    ASSUME LimiterInv, [Next]_vars
    PROVE  LimiterType'
<1>0. MaxTime \in Nat
  BY TimesAssumption DEF TimesAssumption
<1>1. clock' \in Times
  <2>1. CASE Tick
    <3>1. Horizon[Cardinality(Serving)] \in 0 .. MaxTime
      BY HorizonAssumption DEF HorizonAssumption, LimiterInv, ServersKept
    <3>2. clock \in 0 .. MaxTime /\ clock < Horizon[Cardinality(Serving)] /\ clock' = clock + 1
      BY <2>1 DEF Tick, LimiterInv, LimiterType, Times
    <3> QED
      BY <1>0, <3>1, <3>2 DEF Times
  <2>2. CASE ~Tick
    <3>1. clock' = clock
      BY <2>2 DEF Next, Step, vars, Admit, Reject, Preflight, ReadClock, Consume, Acquire, Busy,
         Handle, Abandon, AfterRequest, Teardown, EndRequest
    <3> QED
      BY <3>1 DEF LimiterInv, LimiterType
  <2> QED
    BY <2>1, <2>2
<1>2. now' \in [Threads -> Times]
  <2>1. now \in [Threads -> Times] /\ clock \in Times /\ 0 \in Times
    BY <1>0 DEF LimiterInv, LimiterType, Times
  <2>2. now' = now \/ \E t \in Threads : now' = [now EXCEPT ![t] = clock] \/ now' = [now EXCEPT ![t] = 0]
    BY DEF Next, Step, vars, Admit, Reject, Preflight, ReadClock, Consume, Acquire, Busy,
       Handle, Abandon, AfterRequest, Teardown, EndRequest, Tick
  <2> QED
    BY <2>1, <2>2
<1>5. DOMAIN code' = Threads
  <2>1. code' = code \/ \E t \in Threads : Reject(t) \/ Preflight(t) \/ Consume(t) \/ Busy(t)
                                           \/ Handle(t) \/ Teardown(t)
    BY DEF Next, Step, vars, Admit, ReadClock, Acquire, Abandon, AfterRequest, Tick
  <2>2. ASSUME NEW t \in Threads, Reject(t) \/ Preflight(t) \/ Busy(t) \/ Handle(t) \/ Teardown(t)
        PROVE  DOMAIN code' = DOMAIN code
    BY <2>2 DEF Reject, Preflight, Busy, Handle, Teardown, EndRequest
  <2>3. ASSUME NEW t \in Threads, Consume(t) PROVE DOMAIN code' = DOMAIN code
    BY <2>3 DEF Consume
  <2> QED
    BY <2>1, <2>2, <2>3 DEF LimiterInv, LimiterType
<1>3. CASE UNCHANGED <<bucket, through, promise>>
  BY <1>1, <1>2, <1>3, <1>5 DEF LimiterInv, LimiterType
<1>4. CASE \E t \in Threads : Consume(t)
  <2>1. PICK t \in Threads : Consume(t)
    BY <1>4
  <2>2. /\ DOMAIN bucket' = Keys
        /\ \A k \in Keys : bucket'[k] = NoBucket \/ Kept(bucket'[k], k[2])
    BY <2>1, ConsumeBuckets DEF LimiterInv, LimiterType
  <2>3. key[t] \in Keys /\ now[t] \in Times /\ now[t] \in Int
    BY <1>0, <2>1, ConsumeBuckets DEF Times
  <2>4. through' \in [Keys -> [-1 .. MaxTime -> Nat]]
    BY <2>1, ConsumeCounts
  <2>5. promise' \in [Keys -> Int]
    <3>1. promise \in [Keys -> Int]
      BY DEF LimiterInv, LimiterType
    <3>2. promise' = [promise EXCEPT ![key[t]] =
                        IF Earned(key[t], now[t]) >= One THEN -1
                        ELSE now[t] + RetryAfter(key[t], Earned(key[t], now[t]))]
      BY <2>1 DEF Consume
    <3>3. key[t][2] \in Categories /\ Earned(key[t], now[t]) \in Nat /\ One \in Nat
      BY <2>3, EarnedType, PolicyTypes
    <3>4. ~(Earned(key[t], now[t]) >= One) => RetryAfter(key[t], Earned(key[t], now[t])) \in Nat
      BY <3>3, RetryAfterEarns
    <3> QED
      BY <2>3, <3>1, <3>2, <3>4
  <2> QED
    BY <1>1, <1>2, <1>5, <2>2, <2>4, <2>5 DEF LimiterType
<1> QED
  BY <1>3, <1>4, OtherSteps

\* Whoever was told a time to come back will have a token Dropped after it.
PromiseKept ==
    \A k \in Keys : promise[k] >= 0 =>
        \A time \in Times : time >= promise[k] + Dropped => Earned(k, time) >= One

LEMMA PromiseKeptStep ==
    ASSUME LimiterInv, LimiterType', PromiseKept, [Next]_vars
    PROVE  PromiseKept'
<1>1. CASE UNCHANGED <<bucket, through, promise>>
  BY <1>1 DEF PromiseKept, Earned
<1>2. ASSUME NEW t \in Threads, Consume(t) PROVE PromiseKept'
  <2> SUFFICES ASSUME NEW j \in Keys, promise'[j] >= 0, NEW time \in Times, time >= promise'[j] + Dropped
               PROVE  Level(bucket'[j], j[2], time) >= One
    BY EarnedIsLevel DEF PromiseKept
  <2>0. j[2] \in Categories /\ time \in Int /\ promise \in [Keys -> Int]
    BY TimesAssumption DEF Keys, Times, TimesAssumption, LimiterInv, LimiterType
  <2>1. CASE j # key[t]
    <3>1. promise'[j] = promise[j]
      BY <1>2, <2>0, <2>1 DEF Consume
    <3>2. Level(bucket[j], j[2], time) >= One
      BY <3>1, EarnedIsLevel DEF PromiseKept
    <3>3. CASE bucket'[j] = bucket[j]
      BY <3>2, <3>3
    <3>4. CASE bucket'[j] = NoBucket
      BY <2>0, <3>4, PolicyTypes DEF Level
    <3> QED
      BY <1>2, <2>1, <3>3, <3>4, ConsumeBuckets
  <2>2. CASE j = key[t]
    <3> DEFINE tokens == Earned(j, now[t])
               wait == RetryAfter(j, tokens)
    <3>1. now[t] \in Times /\ now[t] \in Int /\ tokens \in Nat /\ One \in Nat
      BY <1>2, <2>0, TimesAssumption, ConsumeBuckets, EarnedType, PolicyTypes DEF Times, TimesAssumption
    <3>2. promise'[j] = IF tokens >= One THEN -1 ELSE now[t] + wait
      BY <1>2, <2>0, <2>2 DEF Consume
    <3>3. tokens < One /\ promise'[j] = now[t] + wait
      BY <3>1, <3>2
    <3>4. /\ wait \in Nat \ {0} /\ Dropped \in Nat
          /\ tokens + (wait + Dropped) * Rate[j[2]] >= One
      BY <2>0, <3>1, <3>3, RetryAfterEarns, SecondAssumption DEF SecondAssumption
    <3>5. /\ Kept(bucket'[j], j[2]) /\ bucket'[j].updated = now[t]
          /\ bucket'[j].tokens = tokens
      BY <1>2, <2>2, <3>1, <3>3, ConsumeBuckets
    <3> HIDE DEF tokens, wait
    <3>6. \/ Level(bucket'[j], j[2], time) = Full(j[2])
          \/ Level(bucket'[j], j[2], time) = tokens + (time - now[t]) * Rate[j[2]]
      BY <2>0, <3>1, <3>3, <3>4, <3>5, LevelLater
    <3>8. Full(j[2]) \in Int /\ Full(j[2]) >= One /\ Rate[j[2]] \in Nat
      BY <2>0, PolicyTypes
    <3> DEFINE gained == (time - now[t]) * Rate[j[2]]
               needed == (wait + Dropped) * Rate[j[2]]
    <3>7. gained \in Int /\ needed \in Int /\ gained >= needed
      BY <2>0, <3>1, <3>3, <3>4, <3>8, PolicyTypes
    <3>9. tokens + needed >= One
      BY <3>4
    <3>10. Level(bucket'[j], j[2], time) \in {Full(j[2]), tokens + gained}
      BY <3>6
    <3> HIDE DEF gained, needed
    <3> QED
      BY <3>1, <3>7, <3>8, <3>9, <3>10
  <2> QED
    BY <2>1, <2>2
<1> QED
  BY <1>1, <1>2, OtherSteps

\* Retry-After is honest: a client that waits as long as it was told, and Dropped
\* longer, with no other request of its key let through in between, is not
\* refused again.
LEMMA HonestStep == LimiterInv /\ PromiseKept /\ [Next]_vars =>
    \A t \in Threads :
        (pc[t] = "consume" /\ pc'[t] # "consume"
            /\ promise[key[t]] \in 0 .. now[t] - Dropped)
            => code'[t] # 429
<1> SUFFICES ASSUME LimiterInv, PromiseKept, [Next]_vars, NEW t \in Threads,
                    pc[t] = "consume", pc'[t] # "consume", promise[key[t]] \in 0 .. now[t] - Dropped
             PROVE  code'[t] # 429
  OBVIOUS
<1>1. Consume(t)
  <2>1. pc \in [Threads -> Steps]
    BY DEF LimiterInv, GateType
  <2>2. ASSUME NEW u \in Threads, NEW from, NEW to, Goto(u, from, to) PROVE u = t /\ from = "consume"
    BY <2>1, <2>2 DEF Goto
  <2>3. PICK u \in Threads : Step(u) \/ Reject(u) \/ Preflight(u) \/ \E k \in Keys : Admit(u, k)
    BY DEF Next, vars, Tick
  <2>4. ~(Reject(u) \/ Preflight(u) \/ \E k \in Keys : Admit(u, k))
    BY <2>2 DEF Reject, Preflight, Admit
  <2>5. ~(ReadClock(u) \/ Acquire(u) \/ Busy(u) \/ Handle(u) \/ Abandon(u) \/ AfterRequest(u))
    BY <2>2 DEF ReadClock, Acquire, Busy, Handle, Abandon, AfterRequest
  <2>6. ~Teardown(u)
    BY <2>2 DEF Teardown, EndRequest
  <2>7. Consume(u) => u = t
    BY <2>2 DEF Consume
  <2> QED
    BY <2>3, <2>4, <2>5, <2>6, <2>7 DEF Step
<1>2. key[t] \in Keys /\ now[t] \in Times /\ promise \in [Keys -> Int] /\ now[t] \in Int
  BY <1>1, ConsumeBuckets, TimesAssumption DEF LimiterInv, LimiterType, Times, TimesAssumption
<1>3. Earned(key[t], now[t]) >= One
  BY <1>2, SecondAssumption DEF PromiseKept, SecondAssumption
<1>4. code' = [code EXCEPT ![t] = 0]
  BY <1>1, <1>3 DEF Consume
<1> QED
  BY <1>4 DEF LimiterInv, LimiterType

-----------------------------------------------------------------------------
(***************************************************************************)
(* One thread: the span of time RateBound speaks of.                       *)
(***************************************************************************)
\* The earliest time the next request of thread s can bring to the limiter,
\* and what was let through of k after time x.
Current(s) == IF pc[s] = "consume" THEN now[s] ELSE clock
Since(k, x) == through[k][MaxTime] - through[k][x]

\* Nothing is counted for a time to come, and what was let through since any
\* time and what is left are together within the bound.
Ledger(s) ==
    /\ pc[s] = "consume" => now[s] <= clock
    /\ \A k \in Keys : \A x \in -1 .. MaxTime : x >= Current(s) => Since(k, x) = 0
    /\ \A k \in Keys : \A y \in Times : \A x \in -1 .. y - 1 : y >= Current(s) =>
          Since(k, x) * One + Earned(k, y) <= Full(k[2]) + (y - x - 1) * Rate[k[2]]

\* What Consume does to the ledger of key k.
LEMMA ConsumeBalances ==
    ASSUME LimiterInv, NEW t \in Threads, Ledger(t), Consume(t),
           NEW k \in Keys, NEW y \in Times, y >= now[t], NEW x \in -1 .. y - 1
    PROVE  Since(k, x)' * One + Earned(k, y)' <= Full(k[2]) + (y - x - 1) * Rate[k[2]]
<1> DEFINE r == Rate[k[2]]
           n == now[t]
           before == Since(k, x)
           after == through'[k][MaxTime] - through'[k][x]
           level == Level(bucket'[k], k[2], y)
<1> SUFFICES after * One + level <= Full(k[2]) + (y - x - 1) * r
  BY EarnedIsLevel DEF Since
<1>1. /\ k[2] \in Categories /\ n \in Times /\ n \in Nat /\ y \in Nat /\ x \in Int /\ MaxTime \in Nat
      /\ x \in -1 .. MaxTime /\ MaxTime \in -1 .. MaxTime /\ n <= MaxTime /\ y <= MaxTime
  <2>1. n \in Times /\ k[2] \in Categories
    BY ConsumeBuckets DEF Keys
  <2> QED
    BY <2>1, TimesAssumption DEF Times, TimesAssumption
<1>2. r \in Nat \ {0} /\ One \in Nat \ {0} /\ Full(k[2]) \in Nat /\ ForgetAfter \in Nat
  BY <1>1, PolicyTypes
<1>3. through[k][MaxTime] \in Nat /\ through[k][x] \in Nat
  BY <1>1 DEF LimiterInv, LimiterType
<1>4. Current(t) = n
  BY DEF Current, Consume, Goto
<1>5. before \in Int /\ (x >= n => before = 0)
  BY <1>1, <1>3, <1>4 DEF Since, Ledger
<1>6. \A z \in Times : z >= n /\ x < z =>
         before * One + Earned(k, z) <= Full(k[2]) + (z - x - 1) * r
  <2> SUFFICES ASSUME NEW z \in Times, z >= n, x < z
               PROVE  before * One + Earned(k, z) <= Full(k[2]) + (z - x - 1) * r
    OBVIOUS
  <2>1. x \in -1 .. z - 1
    BY <1>1, TimesAssumption DEF Times, TimesAssumption
  <2> QED
    BY <1>4, <2>1 DEF Ledger
<1>7. level \in 0 .. Full(k[2])
  <2>1. bucket'[k] = NoBucket \/ Kept(bucket'[k], k[2])
    <3>1. bucket[k] = NoBucket \/ Kept(bucket[k], k[2])
      BY DEF LimiterInv, LimiterType
    <3> QED
      BY <3>1, ConsumeBuckets
  <2>2. y \in Int
    BY <1>1
  <2> QED
    BY <1>1, <2>1, <2>2, LevelType
<1>8. (y - x - 1) * r \in Nat
  BY <1>1, <1>2
<1>9. CASE k # key[t]
  <2>1. after = before
    BY <1>1, <1>9, ConsumeCounts DEF Since
  <2>2. before * One + Level(bucket[k], k[2], y) <= Full(k[2]) + (y - x - 1) * r
    BY <1>1, <1>6, EarnedIsLevel
  <2>3. CASE bucket'[k] = bucket[k]
    BY <2>1, <2>2, <2>3
  <2>4. CASE bucket'[k] = NoBucket /\ bucket[k].seen < n - ForgetAfter
    <3>1. CASE bucket[k] = NoBucket
      BY <2>1, <2>2, <2>4, <3>1
    <3>2. CASE Kept(bucket[k], k[2])
      <4>1. bucket[k].updated \in Nat /\ bucket[k].updated < n - ForgetAfter
        BY <2>4, <3>2, <1>1 DEF Kept, Times
      <4>2. Level(bucket[k], k[2], y) = Full(k[2])
        BY <1>1, <1>2, <3>2, <4>1, LevelLater
      <4>3. level = Full(k[2])
        BY <2>4 DEF Level
      <4> QED
        BY <2>1, <2>2, <4>2, <4>3
    <3> QED
      BY <3>1, <3>2 DEF LimiterInv, LimiterType
  <2> QED
    BY <1>9, <2>3, <2>4, ConsumeBuckets
<1>10. CASE k = key[t]
  <2> DEFINE tokens == Earned(k, n)
             left == IF tokens >= One THEN tokens - One ELSE tokens
             more == IF tokens >= One THEN 1 ELSE 0
  <2>1. tokens \in Nat
    BY <1>1, <1>2, EarnedType
  <2>4. /\ through'[k][MaxTime] = through[k][MaxTime] + more
        /\ through'[k][x] = IF x >= n THEN through[k][x] + more ELSE through[k][x]
    <3>1. \A z \in -1 .. MaxTime :
             through'[k][z] = IF tokens >= One /\ z >= n THEN through[k][z] + 1 ELSE through[k][z]
      BY <1>10, ConsumeCounts
    <3> HIDE DEF tokens
    <3> QED
      BY <1>1, <1>3, <3>1
  <2>5. more \in {0, 1} /\ more * One + left = tokens /\ left \in Nat
    BY <1>2, <2>1
  <2>6. before = through[k][MaxTime] - through[k][x]
    BY DEF Since
  <2> HIDE DEF tokens, more, left, before
  <2>2. CASE x >= n
    <3>1. after = 0
      BY <1>3, <1>5, <2>2, <2>4, <2>5, <2>6
    <3> QED
      BY <1>2, <1>7, <1>8, <3>1
  <2>3. CASE x < n
    <3>1. after = before + more
      BY <1>1, <1>3, <2>3, <2>4, <2>5, <2>6
    <3>2. before * One + tokens <= Full(k[2]) + (n - x - 1) * r
      BY <1>1, <1>6, <2>3 DEF tokens
    <3>3. /\ Kept(bucket'[k], k[2]) /\ bucket'[k].updated = n
          /\ bucket'[k].tokens = left
      BY <1>10, ConsumeBuckets DEF left, tokens
    <3>4. level <= left + (y - n) * r
      BY <1>1, <3>3, LevelLater
    <3>5. after * One = before * One + more * One
      BY <1>2, <1>5, <2>5, <3>1
    <3>6. (n - x - 1) * r + (y - n) * r = (y - x - 1) * r
      BY <1>1, <1>2
    <3> HIDE DEF after, level
    <3>7. /\ before * One \in Int /\ more * One \in Int /\ (n - x - 1) * r \in Int
          /\ (y - n) * r \in Int /\ left \in Int /\ level \in Int
      BY <1>1, <1>2, <1>5, <1>7, <2>5
    <3> QED
      BY <1>2, <2>1, <2>5, <3>2, <3>4, <3>5, <3>6, <3>7
  <2> QED
    BY <1>1, <2>2, <2>3
<1> QED
  BY <1>9, <1>10

\* The span bound of RateBound.
SpanBound ==
    \A k \in Keys : \A x \in -1 .. MaxTime : \A y \in x + 1 .. MaxTime :
        (through[k][y] - through[k][x]) * One <= Full(k[2]) + (y - x - 1) * Rate[k[2]]

OneThread(s) == Ledger(s) /\ SpanBound

LEMMA ConsumeKeepsLedger ==
    ASSUME LimiterInv, NEW s \in Threads, OneThread(s), Consume(s)
    PROVE  OneThread(s)'
<1> DEFINE n == now[s]
<1>0. n \in Nat /\ clock \in Nat /\ n <= clock /\ clock' = clock /\ MaxTime \in Nat
      /\ n \in Times
  <2>1. n \in Times /\ clock \in Times
    BY ConsumeBuckets DEF LimiterInv, LimiterType
  <2>2. n <= clock /\ clock' = clock
    BY DEF OneThread, Ledger, Consume, Goto
  <2> QED
    BY <2>1, <2>2, TimesAssumption DEF Times, TimesAssumption
<1>1. pc'[s] # "consume" /\ Current(s) = n /\ Current(s)' = clock
  <2>1. pc \in [Threads -> Steps] /\ clock' = clock
    BY DEF LimiterInv, GateType, Consume
  <2> QED
    BY <2>1 DEF Consume, Goto, Current
<1>2. ASSUME NEW k \in Keys, NEW x \in -1 .. MaxTime, x >= n
      PROVE  through'[k][MaxTime] - through'[k][x] = 0
  <2>1. through[k][MaxTime] \in Nat /\ through[k][x] \in Nat
    BY <1>0, <1>2 DEF LimiterInv, LimiterType
  <2>2. through[k][MaxTime] = through[k][x]
    BY <1>1, <1>2, <2>1 DEF OneThread, Ledger, Since
  <2>3. MaxTime \in -1 .. MaxTime /\ MaxTime >= n
    BY <1>0, <1>2
  <2>4. through'[k][MaxTime] = through'[k][x]
    <3>1. \A z \in -1 .. MaxTime : z >= n =>
             through'[k][z] = IF Earned(key[s], n) >= One /\ k = key[s]
                              THEN through[k][z] + 1 ELSE through[k][z]
      BY ConsumeCounts
    <3> QED
      BY <1>2, <2>2, <2>3, <3>1
  <2>5. through'[k][MaxTime] \in Nat
    BY <1>2, <2>3, ConsumeCounts
  <2> QED
    BY <2>4, <2>5
<1>3. Ledger(s)'
  <2>1. \A k \in Keys : \A x \in -1 .. MaxTime : x >= clock => Since(k, x)' = 0
    BY <1>0, <1>2 DEF Since
  <2>2. \A k \in Keys : \A y \in Times : \A x \in -1 .. y - 1 : y >= clock =>
          Since(k, x)' * One + Earned(k, y)' <= Full(k[2]) + (y - x - 1) * Rate[k[2]]
    <3> SUFFICES ASSUME NEW k \in Keys, NEW y \in Times, NEW x \in -1 .. y - 1, y >= clock
                 PROVE  Since(k, x)' * One + Earned(k, y)' <= Full(k[2]) + (y - x - 1) * Rate[k[2]]
      OBVIOUS
    <3>1. y >= n
      BY <1>0, TimesAssumption DEF Times, TimesAssumption
    <3> QED
      BY <3>1, ConsumeBalances DEF OneThread
  <2> QED
    BY <1>0, <1>1, <2>1, <2>2 DEF Ledger
<1>4. SpanBound'
  <2> SUFFICES ASSUME NEW k \in Keys, NEW x \in -1 .. MaxTime, NEW y \in x + 1 .. MaxTime
               PROVE  (through'[k][y] - through'[k][x]) * One
                          <= Full(k[2]) + (y - x - 1) * Rate[k[2]]
    BY DEF SpanBound
  <2>1. /\ x \in Int /\ y \in Times /\ y \in Int /\ y \in -1 .. MaxTime /\ x \in -1 .. y - 1
        /\ x < y
    BY <1>0 DEF Times
  <2>2. CASE y < n
    <3>1. through'[k][y] = through[k][y] /\ through'[k][x] = through[k][x]
      <4>1. ~(y >= n) /\ ~(x >= n)
        BY <1>0, <2>1, <2>2
      <4> QED
        BY <2>1, <4>1, ConsumeCounts
    <3> QED
      BY <3>1 DEF OneThread, SpanBound
  <2>3. CASE y >= n
    <3>1. Since(k, x)' * One + Earned(k, y)' <= Full(k[2]) + (y - x - 1) * Rate[k[2]]
      BY <2>1, <2>3, ConsumeBalances DEF OneThread
    <3>2. /\ through'[k][MaxTime] \in Nat /\ through'[k][y] \in Nat /\ through'[k][x] \in Nat
      BY <1>0, <2>1, ConsumeCounts
    <3>3. Since(k, x)' = through'[k][y] - through'[k][x]
      BY <1>2, <2>1, <2>3, <3>2 DEF Since
    <3>4. Earned(k, y)' \in Nat
      <4>1. bucket'[k] = NoBucket \/ Kept(bucket'[k], k[2])
        <5>1. bucket[k] = NoBucket \/ Kept(bucket[k], k[2])
          BY DEF LimiterInv, LimiterType
        <5> QED
          BY <5>1, ConsumeBuckets
      <4>2. k[2] \in Categories
        BY DEF Keys
      <4>3. Level(bucket'[k], k[2], y) \in 0 .. Full(k[2]) /\ Full(k[2]) \in Nat
        BY <2>1, <4>1, <4>2, LevelType, PolicyTypes
      <4> QED
        BY <4>3, EarnedIsLevel
    <3> DEFINE passed == through'[k][y] - through'[k][x]
               bound == Full(k[2]) + (y - x - 1) * Rate[k[2]]
    <3>5. passed * One + Earned(k, y)' <= bound /\ passed * One \in Int /\ bound \in Int
      <4>1. k[2] \in Categories
        BY DEF Keys
      <4> QED
        BY <2>1, <3>1, <3>2, <3>3, <4>1, PolicyTypes
    <3> HIDE DEF passed, bound
    <3>6. passed * One <= bound
      BY <3>4, <3>5
    <3> QED
      BY <3>6 DEF passed, bound
  <2> QED
    BY <1>0, <2>1, <2>2, <2>3
<1> QED
  BY <1>3, <1>4 DEF OneThread

\* A step that brings nothing to the limiter moves its time on, or not.
LEMMA LedgerUntouched ==
    ASSUME LimiterInv, LimiterType', NEW s \in Threads, OneThread(s),
           UNCHANGED <<bucket, through>>,
           Current(s)' >= Current(s), pc'[s] = "consume" => now'[s] <= clock'
    PROVE  OneThread(s)'
<1>1. SpanBound'
  BY DEF OneThread, SpanBound
<1>2. /\ Current(s) \in Int /\ Current(s)' \in Int /\ MaxTime \in Nat
  BY TimesAssumption DEF Current, LimiterInv, LimiterType, Times, TimesAssumption
<1>3. /\ \A k, x : Since(k, x)' = Since(k, x)
      /\ \A k, y : Earned(k, y)' = Earned(k, y)
  BY DEF Since, Earned
<1>4. \A k \in Keys : \A x \in -1 .. MaxTime : x >= Current(s)' => Since(k, x)' = 0
  BY <1>2, <1>3 DEF OneThread, Ledger
<1>5. \A k \in Keys : \A y \in Times : \A x \in -1 .. y - 1 : y >= Current(s)' =>
          Since(k, x)' * One + Earned(k, y)' <= Full(k[2]) + (y - x - 1) * Rate[k[2]]
  <2> SUFFICES ASSUME NEW k \in Keys, NEW y \in Times, NEW x \in -1 .. y - 1, y >= Current(s)'
               PROVE  Since(k, x) * One + Earned(k, y) <= Full(k[2]) + (y - x - 1) * Rate[k[2]]
    BY <1>3
  <2>1. y >= Current(s)
    BY <1>2 DEF Times
  <2> QED
    BY <2>1 DEF OneThread, Ledger
<1>6. Ledger(s)'
  BY <1>4, <1>5 DEF Ledger
<1> QED
  BY <1>1, <1>6 DEF OneThread

LEMMA LedgerStep ==
    ASSUME LimiterInv, LimiterType', [Next]_vars, NEW s \in Threads, Serving = {s}, OneThread(s)
    PROVE  OneThread(s)'
<1>0. /\ pc \in [Threads -> Steps] /\ now \in [Threads -> Times] /\ clock \in Int
      /\ now[s] \in Int /\ (pc[s] = "consume" => now[s] <= clock)
  BY TimesAssumption DEF LimiterInv, GateType, LimiterType, Times, TimesAssumption, OneThread, Ledger
<1>1. ASSUME NEW t \in Threads, NEW from, from # "absent", NEW to, Goto(t, from, to)
      PROVE  t = s /\ pc[s] = from /\ pc'[s] = to
  <2>1. t \in Serving
    BY <1>1 DEF Goto, Serving
  <2> QED
    BY <1>0, <1>1, <2>1 DEF Goto
<1>2. CASE Tick
  <2>1. UNCHANGED <<bucket, through, pc, now>> /\ clock' = clock + 1
    BY <1>2 DEF Tick, limits, history
  <2>2. Current(s)' >= Current(s) /\ (pc'[s] = "consume" => now'[s] <= clock')
    BY <1>0, <2>1 DEF Current
  <2> QED
    BY <2>1, <2>2, LedgerUntouched
<1>3. CASE UNCHANGED vars
  <2>1. UNCHANGED <<bucket, through, pc, now, clock>>
    BY <1>3 DEF vars, limits, history
  <2>2. Current(s)' >= Current(s) /\ (pc'[s] = "consume" => now'[s] <= clock')
    BY <1>0, <2>1 DEF Current
  <2> QED
    BY <2>1, <2>2, LedgerUntouched
<1>4. ASSUME NEW t \in Threads, ReadClock(t) PROVE OneThread(s)'
  <2>1. t = s /\ pc[s] = "read_clock" /\ pc'[s] = "consume"
    BY <1>1, <1>4 DEF ReadClock
  <2>2. UNCHANGED <<bucket, through, clock>> /\ now' = [now EXCEPT ![t] = clock]
    BY <1>4 DEF ReadClock, limits, history
  <2>3. Current(s)' >= Current(s) /\ (pc'[s] = "consume" => now'[s] <= clock')
    BY <1>0, <2>1, <2>2 DEF Current
  <2> QED
    BY <2>2, <2>3, LedgerUntouched
<1>5. ASSUME NEW t \in Threads, Consume(t) PROVE OneThread(s)'
  <2>1. PICK to : Goto(t, "consume", to)
    BY <1>5 DEF Consume
  <2>2. t = s
    BY <1>1, <2>1
  <2> QED
    BY <1>5, <2>2, ConsumeKeepsLedger
<1>6. ASSUME NEW t \in Threads, NEW from, from \notin {"absent", "consume"}, NEW to, to # "consume",
             Goto(t, from, to), UNCHANGED <<bucket, through, clock>>
      PROVE  OneThread(s)'
  <2>1. pc[s] # "consume" /\ pc'[s] # "consume"
    BY <1>1, <1>6
  <2>2. Current(s)' >= Current(s) /\ (pc'[s] = "consume" => now'[s] <= clock')
    BY <1>0, <1>6, <2>1 DEF Current
  <2> QED
    BY <1>6, <2>2, LedgerUntouched
<1>7. ASSUME NEW t \in Threads, Reject(t) \/ Preflight(t) \/ \E k \in Keys : Admit(t, k)
      PROVE  OneThread(s)'
  BY <1>6, <1>7 DEF Reject, Preflight, Admit, limits, history
<1>8. ASSUME NEW t \in Threads, Acquire(t) \/ Busy(t) \/ Handle(t) PROVE OneThread(s)'
  BY <1>6, <1>8 DEF Acquire, Busy, Handle, limits, history
<1>9. ASSUME NEW t \in Threads, Abandon(t) \/ AfterRequest(t) \/ Teardown(t) PROVE OneThread(s)'
  BY <1>6, <1>9 DEF Abandon, AfterRequest, Teardown, EndRequest, limits, history
<1> QED
  BY <1>2, <1>3, <1>4, <1>5, <1>7, <1>8, <1>9 DEF Next, Step

LEMMA LedgerInit ==
    ASSUME Init, NEW s \in Threads
    PROVE  OneThread(s)
<1>1. /\ through = [k \in Keys |-> [x \in -1 .. MaxTime |-> 0]]
      /\ bucket = [k \in Keys |-> NoBucket] /\ MaxTime \in Nat /\ pc[s] # "consume"
  BY TimesAssumption DEF Init, TimesAssumption
<1>2. ASSUME NEW k \in Keys, NEW y \in -1 .. MaxTime, NEW x \in -1 .. y - 1
      PROVE  /\ (through[k][y] - through[k][x]) * One = 0 /\ Since(k, x) * One = 0
             /\ Earned(k, y) = Full(k[2]) /\ Full(k[2]) \in Nat
             /\ (y - x - 1) * Rate[k[2]] \in Nat
  <2>1. k[2] \in Categories /\ One \in Nat
    BY PolicyAssumption DEF Keys, PolicyAssumption
  <2>2. x \in -1 .. MaxTime /\ y - x - 1 \in Nat /\ MaxTime \in -1 .. MaxTime
    BY <1>1, <1>2
  <2>3. through[k][y] = 0 /\ through[k][x] = 0 /\ through[k][MaxTime] = 0
    BY <1>1, <2>2
  <2> QED
    BY <1>1, <2>1, <2>2, <2>3, PolicyTypes DEF Earned, Since
<1>3. SpanBound
  <2> SUFFICES ASSUME NEW k \in Keys, NEW x \in -1 .. MaxTime, NEW y \in x + 1 .. MaxTime
               PROVE  (through[k][y] - through[k][x]) * One
                          <= Full(k[2]) + (y - x - 1) * Rate[k[2]]
    BY DEF SpanBound
  <2>1. y \in -1 .. MaxTime /\ x \in -1 .. y - 1
    BY <1>1
  <2> QED
    BY <1>2, <2>1
<1>4. \A k \in Keys : \A x \in -1 .. MaxTime : Since(k, x) = 0
  BY <1>1 DEF Since
<1>5. \A k \in Keys : \A y \in Times : \A x \in -1 .. y - 1 : 
          Since(k, x) * One + Earned(k, y) <= Full(k[2]) + (y - x - 1) * Rate[k[2]]
  <2> SUFFICES ASSUME NEW k \in Keys, NEW y \in Times, NEW x \in -1 .. y - 1
               PROVE  Since(k, x) * One + Earned(k, y) <= Full(k[2]) + (y - x - 1) * Rate[k[2]]
    OBVIOUS
  <2>1. y \in -1 .. MaxTime
    BY <1>1 DEF Times
  <2> QED
    BY <1>2, <2>1
<1> QED
  BY <1>1, <1>3, <1>4, <1>5 DEF OneThread, Ledger

(***************************************************************************)
(* The invariant of the whole boundary, and what it gives.                 *)
(***************************************************************************)
BoundaryInv ==
    /\ GateInv /\ LimiterInv /\ PromiseKept
    /\ \A s \in Threads : Serving = {s} => OneThread(s)

LEMMA BoundaryInvAlways == Spec => []BoundaryInv
<1>1. Init => BoundaryInv
  <2> SUFFICES ASSUME Init PROVE BoundaryInv
    OBVIOUS
  <2>1. PromiseKept
    BY DEF Init, PromiseKept
  <2> QED
    BY <2>1, GateInvInit, LimiterInvInit, LedgerInit DEF BoundaryInv
<1>2. BoundaryInv /\ [Next]_vars => BoundaryInv'
  <2> SUFFICES ASSUME BoundaryInv, [Next]_vars PROVE BoundaryInv'
    OBVIOUS
  <2>1. GateInv' /\ LimiterInv /\ PromiseKept
    BY GateInvNext DEF BoundaryInv
  <2>2. LimiterType' /\ ServersKept' /\ Serving' = Serving
    BY <2>1, LimiterTypeStep, OtherSteps
  <2>3. PromiseKept'
    BY <2>1, <2>2, PromiseKeptStep
  <2>4. LimiterInv'
    BY <2>1, <2>2 DEF LimiterInv, GateInv
  <2>5. \A s \in Threads : Serving' = {s} => OneThread(s)'
    BY <2>1, <2>2, LedgerStep DEF BoundaryInv
  <2> QED
    BY <2>1, <2>3, <2>4, <2>5 DEF BoundaryInv
<1> QED
  BY <1>1, <1>2, PTL DEF Spec

\* In a process of one thread, the requests of a key that any span of time lets
\* through are no more than Burst and what Rate earns in it, buckets swept or
\* not (TokenBucketLimiter.consume).
THEOREM LimiterBoundsRate == Spec => []RateBound
<1>1. ASSUME BoundaryInv PROVE RateBound
  <2> SUFFICES ASSUME Cardinality(Serving) = 1 PROVE SpanBound
    BY DEF RateBound, SpanBound
  <2>1. IsFiniteSet(Serving)
    <3>1. Serving \subseteq Threads
      BY DEF Serving
    <3> QED
      BY <3>1, FS_Subset, ThreadsAssumption DEF ThreadsAssumption
  <2>2. PICK s : Serving = {s}
    BY <2>1, FS_Singleton
  <2>3. s \in Threads
    BY <2>2 DEF Serving
  <2> QED
    BY <1>1, <2>2, <2>3 DEF BoundaryInv, OneThread
<1> QED
  BY <1>1, BoundaryInvAlways, PTL

\* A client that comes back when Retry-After has told it to, or rather Dropped (a
\* millisecond) later, is not refused again, with any number of threads; the
\* margin is what int(retry_after + 0.999) may round off (security.py:232).
THEOREM RetryAfterIsHonest == Spec => RetryAfterHonest
<1>1. BoundaryInv /\ [Next]_vars =>
        [\A t \in Threads :
            (pc[t] = "consume" /\ pc'[t] # "consume"
                /\ promise[key[t]] \in 0 .. now[t] - Dropped)
                => code'[t] # 429]_vars
  BY HonestStep DEF BoundaryInv
<1> QED
  BY <1>1, BoundaryInvAlways, PTL DEF Spec, RetryAfterHonest

(***************************************************************************)
(* The exchange with the engine.                                           *)
(***************************************************************************)
Codes == {0, 200, 202, 400, 404, 409, 413, 500, 502, 503, 504}

Pcs == {"idle", "sent", "answered", "pause", "done"}
Ops == {"none", "submit", "status", "wait", "report"}
Bodies == {"none", "detail", "page"}
Tries == 0 .. GetRetries
Ticks == 0 .. ReadTimeout

Calls ==
    [pc : Pcs, op : Ops, job : Jobs \cup {NoJob}, kind : PublicKinds \cup {NoKind},
     attempt : Tries, hung : Ticks, code : Codes, body : Bodies, shows : Engine!Statuses]

LEMMA Values ==
    /\ "idle" \in Pcs /\ "sent" \in Pcs /\ "answered" \in Pcs /\ "pause" \in Pcs /\ "done" \in Pcs
    /\ "none" \in Ops /\ "submit" \in Ops /\ "status" \in Ops /\ "wait" \in Ops /\ "report" \in Ops
    /\ "none" \in Bodies /\ "detail" \in Bodies /\ "page" \in Bodies
    /\ 0 \in Tries /\ 0 \in Ticks /\ 0 \in Codes /\ 200 \in Codes
    /\ {400, 404} \subseteq Codes /\ {502, 503, 504} \subseteq Codes
    /\ "absent" \in Engine!Statuses /\ "queued" \in Engine!Statuses
BY TimeoutsAssumption DEF Pcs, Ops, Bodies, Tries, Ticks, Codes, Engine!Statuses, TimeoutsAssumption

(* What the request k is about; a submission is never at a second attempt. *)
Asked(k) ==
    /\ k.pc = "idle" => k.op = "none"
    /\ k.op \in {"status", "wait", "report"} => k.job \in Jobs
    /\ k.op = "submit" => k.attempt = 0 /\ k.pc # "pause"

(* The jobs `made` that the engine made for the request k. *)
Made(k, made) ==
    /\ k.op # "submit" => made = {}
    /\ made \subseteq {k.job}
    /\ k.op = "submit" =>
          /\ k.pc = "sent" => made = {}
          /\ k.pc = "answered" => made = IF k.code >= 400 THEN {} ELSE {k.job}
          /\ k.pc = "done" /\ k.code = 202 => made = {k.job}
          /\ k.pc = "done" /\ k.code \in 400 .. 499 => made = {}

ProxyInv ==
    /\ ProxyTypeOK
    /\ \A c \in Callers : Asked(call[c]) /\ Made(call[c], posts[c])

LEMMA IdleIsACall == Idle \in Calls
BY Values DEF Idle, Calls

(* A request in which one field is set is a request. *)
LEMMA FieldSet ==
    ASSUME NEW k \in Calls
    PROVE  /\ \A v \in Pcs : [k EXCEPT !.pc = v] \in Calls
           /\ \A v \in Ops : [k EXCEPT !.op = v] \in Calls
           /\ \A v \in Jobs \cup {NoJob} : [k EXCEPT !.job = v] \in Calls
           /\ \A v \in PublicKinds \cup {NoKind} : [k EXCEPT !.kind = v] \in Calls
           /\ \A v \in Tries : [k EXCEPT !.attempt = v] \in Calls
           /\ \A v \in Ticks : [k EXCEPT !.hung = v] \in Calls
           /\ \A v \in Codes : [k EXCEPT !.code = v] \in Calls
           /\ \A v \in Bodies : [k EXCEPT !.body = v] \in Calls
           /\ \A v \in Engine!Statuses : [k EXCEPT !.shows = v] \in Calls
<1>1. \A v \in Pcs : [k EXCEPT !.pc = v] \in Calls
    BY DEF Calls
<1>2. \A v \in Ops : [k EXCEPT !.op = v] \in Calls
    BY DEF Calls
<1>3. \A v \in Jobs \cup {NoJob} : [k EXCEPT !.job = v] \in Calls
    BY DEF Calls
<1>4. \A v \in PublicKinds \cup {NoKind} : [k EXCEPT !.kind = v] \in Calls
    BY DEF Calls
<1>5. \A v \in Tries : [k EXCEPT !.attempt = v] \in Calls
    BY DEF Calls
<1>6. \A v \in Ticks : [k EXCEPT !.hung = v] \in Calls
    BY DEF Calls
<1>7. \A v \in Codes : [k EXCEPT !.code = v] \in Calls
    BY DEF Calls
<1>8. \A v \in Bodies : [k EXCEPT !.body = v] \in Calls
    BY DEF Calls
<1>9. \A v \in Engine!Statuses : [k EXCEPT !.shows = v] \in Calls
    BY DEF Calls
<1> QED BY <1>1, <1>2, <1>3, <1>4, <1>5, <1>6, <1>7, <1>8, <1>9

LEMMA Shape ==
    ASSUME ProxyInv
    PROVE  /\ Engine!TypeOK
           /\ call \in [Callers -> Calls]
           /\ temp \in [Callers -> BOOLEAN]
           /\ \A c \in Callers : call[c].pc = "done" => ~temp[c]
           /\ posts \in [Callers -> SUBSET Jobs]
           /\ spent \in [Callers -> Nat]
           /\ faults \in 0 .. MaxFaults
           /\ \A c \in Callers : Asked(call[c]) /\ Made(call[c], posts[c])
BY DEF ProxyInv, ProxyTypeOK, At, Calls, Codes, Pcs, Ops, Bodies, Tries, Ticks

(***************************************************************************)
(* A step of one thread.                                                   *)
(***************************************************************************)
(* The request of c becomes new, with the jobs made for it. *)
MovesTo(c, new, made) ==
    /\ new \in Calls /\ made \in SUBSET Jobs /\ Asked(new) /\ Made(new, made)
    /\ call' = [call EXCEPT ![c] = new] /\ posts' = [posts EXCEPT ![c] = made]
    /\ temp' \in [Callers -> BOOLEAN] /\ \A d \in Callers : d # c => temp'[d] = temp[d]
    /\ new.pc = "done" => ~temp'[c]
    /\ spent' \in [Callers -> Nat] /\ faults' \in 0 .. MaxFaults /\ Engine!TypeOK'

LEMMA Moved ==
    ASSUME ProxyInv, NEW c \in Callers, NEW new, NEW made, MovesTo(c, new, made)
    PROVE  ProxyInv'
<1>0. /\ new \in Calls /\ made \in SUBSET Jobs /\ Asked(new) /\ Made(new, made)
      /\ call' = [call EXCEPT ![c] = new] /\ posts' = [posts EXCEPT ![c] = made]
      /\ temp' \in [Callers -> BOOLEAN] /\ \A d \in Callers : d # c => temp'[d] = temp[d]
      /\ new.pc = "done" => ~temp'[c]
      /\ spent' \in [Callers -> Nat] /\ faults' \in 0 .. MaxFaults /\ Engine!TypeOK'
    BY DEF MovesTo
<1>1. call' \in [Callers -> Calls] /\ posts' \in [Callers -> SUBSET Jobs]
    BY <1>0, Shape
<1>2. ASSUME NEW d \in Callers
      PROVE  Asked(call'[d]) /\ Made(call'[d], posts'[d]) /\ (call'[d].pc = "done" => ~temp'[d])
    <2>1. CASE d = c
        <3>1. call'[d] = new /\ posts'[d] = made
            BY <1>0, <2>1, Shape
        <3> QED BY <1>0, <2>1, <3>1
    <2>2. CASE d # c
        <3>1. call'[d] = call[d] /\ posts'[d] = posts[d] /\ temp'[d] = temp[d]
            BY <1>0, <2>2, Shape
        <3> QED BY <3>1, Shape
    <2> QED BY <2>1, <2>2
<1>3. ProxyTypeOK'
    BY <1>0, <1>1, <1>2 DEF ProxyTypeOK, At, Calls, Codes, Pcs, Ops, Bodies, Tries, Ticks
<1> QED BY <1>2, <1>3 DEF ProxyInv

LEMMA EngineRests ==
    ASSUME ProxyInv, UNCHANGED engine
    PROVE  Engine!TypeOK'
BY Shape DEF engine, Engine!TypeOK

LEMMA CallFields ==
    ASSUME ProxyInv, NEW c \in Callers
    PROVE  /\ call[c] \in Calls /\ posts[c] \in SUBSET Jobs
           /\ Asked(call[c]) /\ Made(call[c], posts[c])
           /\ posts = [posts EXCEPT ![c] = posts[c]]
BY Shape

(* _request sends a GET again, and never a POST. *)
LEMMA AgainKeeps ==
    ASSUME ProxyInv, NEW c \in Callers, call[c].pc \in {"sent", "answered"}, More(c), Again(c),
           UNCHANGED <<engine, posts, spent>>, faults' \in 0 .. MaxFaults
    PROVE  ProxyInv'
<1> DEFINE k == call[c]
           new == [k EXCEPT !.pc = "sent", !.attempt = k.attempt + 1, !.hung = 0]
<1>1. k \in Calls /\ Asked(k) /\ Made(k, posts[c]) /\ posts[c] \in SUBSET Jobs
    BY CallFields
<1>2. k.op # "submit" /\ k.attempt + 1 \in Tries
    <2>1. k.attempt \in 0 .. GetRetries /\ GetRetries \in Nat
        BY <1>1, TimeoutsAssumption DEF Calls, Tries, TimeoutsAssumption
    <2>2. k.op # "submit"
        BY <1>1, <2>1 DEF Asked, More, Attempts
    <2> QED BY <2>1, <2>2 DEF More, Attempts, Tries
<1>3. new \in Calls
    <2>1. [k EXCEPT !.pc = "sent"] \in Calls
        BY <1>1, Values, FieldSet
    <2>2. [k EXCEPT !.pc = "sent", !.attempt = k.attempt + 1] \in Calls
        BY <1>2, <2>1, FieldSet
    <2> QED BY <2>2, Values, FieldSet
<1>4. Asked(new) /\ Made(new, posts[c]) /\ new.pc # "done"
    BY <1>1, <1>2 DEF Asked, Made, Calls
<1>5. /\ call' = [call EXCEPT ![c] = new] /\ posts' = [posts EXCEPT ![c] = posts[c]]
      /\ temp' \in [Callers -> BOOLEAN] /\ temp' = temp /\ spent' \in [Callers -> Nat]
    BY CallFields, Shape DEF Again, Become
<1>6. Engine!TypeOK'
    BY EngineRests
<1> HIDE DEF new, k
<1>10. MovesTo(c, new, posts[c])
    BY <1>1, <1>3, <1>4, <1>5, <1>6 DEF MovesTo
<1> QED BY <1>10, Moved

(* The last word of Stage 1 on a request. *)
LEMMA ReplyKeeps ==
    ASSUME ProxyInv, NEW c \in Callers, NEW reply \in Codes, Reply(c, reply),
           UNCHANGED <<engine, posts, spent>>, faults' \in 0 .. MaxFaults,
           call[c].op = "submit" => /\ reply = 202 => posts[c] = {call[c].job}
                                    /\ reply \in 400 .. 499 => posts[c] = {}
    PROVE  ProxyInv'
<1> DEFINE k == call[c]
           new == [k EXCEPT !.pc = "done", !.code = reply, !.hung = 0]
<1>1. k \in Calls /\ Asked(k) /\ Made(k, posts[c]) /\ posts[c] \in SUBSET Jobs
    BY CallFields
<1>2. new \in Calls
    <2>1. [k EXCEPT !.pc = "done"] \in Calls
        BY <1>1, Values, FieldSet
    <2>2. [k EXCEPT !.pc = "done", !.code = reply] \in Calls
        BY <2>1, FieldSet
    <2> QED BY <2>2, Values, FieldSet
<1>3. Asked(new) /\ Made(new, posts[c])
    BY <1>1 DEF Asked, Made, Calls
<1>4. /\ call' = [call EXCEPT ![c] = new] /\ posts' = [posts EXCEPT ![c] = posts[c]]
      /\ temp' = [temp EXCEPT ![c] = FALSE] /\ spent' \in [Callers -> Nat]
    BY CallFields, Shape DEF Reply, Become
<1>5. Engine!TypeOK'
    BY EngineRests
<1>6. temp' \in [Callers -> BOOLEAN] /\ (new.pc = "done" => ~temp'[c])
      /\ \A d \in Callers : d # c => temp'[d] = temp[d]
    BY <1>4, Shape
<1>7. faults' \in 0 .. MaxFaults
    OBVIOUS
<1> HIDE DEF new, k
<1>10. MovesTo(c, new, posts[c])
    BY <1>1, <1>2, <1>3, <1>4, <1>5, <1>6, <1>7 DEF MovesTo
<1> QED BY <1>10, Moved

(***************************************************************************)
(* The steps.                                                              *)
(***************************************************************************)
LEMMA ArriveSubmitKeeps ==
    ASSUME ProxyInv, NEW c \in Callers, ArriveSubmit(c)
    PROVE  ProxyInv'
<1>1. Engine!TypeOK' /\ faults' \in 0 .. MaxFaults /\ spent' \in [Callers -> Nat]
    BY Shape, EngineRests DEF ArriveSubmit
<1>2. posts' = [posts EXCEPT ![c] = {}]
    BY DEF ArriveSubmit
<1>3. ASSUME call' = [call EXCEPT ![c] = [Idle EXCEPT !.pc = "sent", !.op = "submit"]],
             temp' = [temp EXCEPT ![c] = TRUE]
      PROVE  ProxyInv'
    <2> DEFINE new == [Idle EXCEPT !.pc = "sent", !.op = "submit"]
    <2>1. new \in Calls
        BY Values, IdleIsACall, FieldSet
    <2>2. Asked(new) /\ Made(new, {}) /\ new.pc # "done"
        BY DEF Idle, Asked, Made
    <2>3. temp' \in [Callers -> BOOLEAN] /\ \A d \in Callers : d # c => temp'[d] = temp[d]
        BY <1>3, Shape
    <2>4. call' = [call EXCEPT ![c] = new]
        BY <1>3
    <2> HIDE DEF new
    <2>10. MovesTo(c, new, {})
        BY <1>1, <1>2, <2>1, <2>2, <2>3, <2>4 DEF MovesTo
    <2> QED BY <2>10, Moved
<1>4. CASE \E reply \in {400, 404} :
              /\ call' = [call EXCEPT ![c] = [Idle EXCEPT !.pc = "done", !.op = "submit", !.code = reply]]
              /\ temp' = [temp EXCEPT ![c] = FALSE]
    <2> DEFINE Ends(reply) ==
              /\ call' = [call EXCEPT ![c] = [Idle EXCEPT !.pc = "done", !.op = "submit", !.code = reply]]
              /\ temp' = [temp EXCEPT ![c] = FALSE]
    <2>1. PICK reply \in Codes : reply # 202 /\ Ends(reply)
        <3>1. \E reply \in {400, 404} : Ends(reply)
            BY <1>4
        <3>2. \A reply \in {400, 404} : reply \in Codes /\ reply # 202
            BY DEF Codes
        <3> HIDE DEF Ends
        <3> QED BY <3>1, <3>2
    <2> DEFINE new == [Idle EXCEPT !.pc = "done", !.op = "submit", !.code = reply]
    <2>2. new \in Calls
        <3>1. [Idle EXCEPT !.pc = "done"] \in Calls
            BY Values, IdleIsACall, FieldSet
        <3>2. [Idle EXCEPT !.pc = "done", !.op = "submit"] \in Calls
            BY <3>1, Values, FieldSet
        <3> QED BY <3>2, FieldSet
    <2>3. Asked(new) /\ Made(new, {})
        BY <2>1 DEF Idle, Asked, Made
    <2>4. temp' \in [Callers -> BOOLEAN] /\ ~temp'[c] /\ \A d \in Callers : d # c => temp'[d] = temp[d]
        BY <2>1, Shape
    <2>5. call' = [call EXCEPT ![c] = new]
        BY <2>1
    <2> HIDE DEF new
    <2>10. MovesTo(c, new, {})
        BY <1>1, <1>2, <2>2, <2>3, <2>4, <2>5 DEF MovesTo
    <2> QED BY <2>10, Moved
<1> QED BY <1>3, <1>4 DEF ArriveSubmit, Become

LEMMA ArriveGetKeeps ==
    ASSUME ProxyInv, NEW c \in Callers, NEW op \in {"status", "wait", "report"}, NEW j \in Jobs,
           NEW kind \in PublicKinds \cup {NoKind}, ArriveGet(c, op, j, kind)
    PROVE  ProxyInv'
<1> DEFINE new == [Idle EXCEPT !.pc = "sent", !.op = op, !.job = j, !.kind = kind]
<1>1. new \in Calls
    <2>1. op \in Ops
        BY Values
    <2>2. [Idle EXCEPT !.pc = "sent"] \in Calls
        BY Values, IdleIsACall, FieldSet
    <2>3. [Idle EXCEPT !.pc = "sent", !.op = op] \in Calls
        BY <2>1, <2>2, FieldSet
    <2>4. [Idle EXCEPT !.pc = "sent", !.op = op, !.job = j] \in Calls
        BY <2>3, FieldSet
    <2> QED BY <2>4, FieldSet
<1>2. Asked(new) /\ Made(new, {}) /\ new.pc # "done"
    BY DEF Idle, Asked, Made
<1>3. /\ Engine!TypeOK' /\ faults' \in 0 .. MaxFaults /\ spent' \in [Callers -> Nat]
      /\ temp' \in [Callers -> BOOLEAN] /\ temp' = temp
    BY Shape, EngineRests DEF ArriveGet
<1>4. posts' = [posts EXCEPT ![c] = {}] /\ call' = [call EXCEPT ![c] = new]
    BY DEF ArriveGet, Become
<1> HIDE DEF new
<1>10. MovesTo(c, new, {})
    BY <1>1, <1>2, <1>3, <1>4 DEF MovesTo
<1> QED BY <1>10, Moved

(* The engine answers a request it has made no job for. *)
LEMMA AnswerKeeps ==
    ASSUME ProxyInv, NEW c \in Callers, At(c, "sent"),
           NEW reply \in Codes, NEW body \in Bodies, NEW shows \in Engine!Statuses,
           call' = [call EXCEPT ![c] = [call[c] EXCEPT !.pc = "answered", !.code = reply,
                                                       !.body = body, !.shows = shows]],
           call[c].op = "submit" => reply >= 400,
           UNCHANGED <<engine, temp, posts, spent>>, faults' \in 0 .. MaxFaults
    PROVE  ProxyInv'
<1> DEFINE k == call[c]
           new == [k EXCEPT !.pc = "answered", !.code = reply, !.body = body, !.shows = shows]
<1>1. k \in Calls /\ Asked(k) /\ Made(k, posts[c]) /\ posts[c] \in SUBSET Jobs /\ k.pc = "sent"
    BY CallFields DEF At
<1>2. new \in Calls
    <2>1. [k EXCEPT !.pc = "answered"] \in Calls
        BY <1>1, Values, FieldSet
    <2>2. [k EXCEPT !.pc = "answered", !.code = reply] \in Calls
        BY <2>1, FieldSet
    <2>3. [k EXCEPT !.pc = "answered", !.code = reply, !.body = body] \in Calls
        BY <2>2, FieldSet
    <2> QED BY <2>3, FieldSet
<1>3. Asked(new) /\ Made(new, posts[c]) /\ new.pc # "done"
    BY <1>1 DEF Asked, Made, Calls
<1>4. call' = [call EXCEPT ![c] = new] /\ posts' = [posts EXCEPT ![c] = posts[c]]
    BY CallFields
<1>5. Engine!TypeOK'
    BY EngineRests
<1>6. temp' \in [Callers -> BOOLEAN] /\ temp' = temp /\ spent' \in [Callers -> Nat]
    BY Shape
<1> HIDE DEF new, k
<1>10. MovesTo(c, new, posts[c])
    BY <1>1, <1>2, <1>3, <1>4, <1>5, <1>6 DEF MovesTo
<1> QED BY <1>10, Moved

(* POST /analyze-ifc makes one job, or refuses and makes none. *)
LEMMA HandleSubmitKeeps ==
    ASSUME ProxyInv, NEW c \in Callers, HandleSubmit(c)
    PROVE  ProxyInv'
<1>0. At(c, "sent") /\ call[c].op = "submit" /\ temp' = temp /\ spent' = spent /\ faults' = faults
    BY DEF HandleSubmit
<1>1. ASSUME NEW j \in Jobs, Engine!Submit(j), posts' = [posts EXCEPT ![c] = @ \cup {j}],
             Become(c, [call[c] EXCEPT !.pc = "answered", !.code = 200, !.job = j, !.shows = "queued"])
      PROVE  ProxyInv'
    <2> DEFINE k == call[c]
               new == [k EXCEPT !.pc = "answered", !.code = 200, !.job = j, !.shows = "queued"]
    <2>1. k \in Calls /\ Asked(k) /\ Made(k, posts[c]) /\ k.pc = "sent" /\ k.op = "submit"
        BY CallFields, <1>0 DEF At
    <2>2. posts[c] = {}
        BY <2>1 DEF Made
    <2>3. posts' = [posts EXCEPT ![c] = {j}] /\ call' = [call EXCEPT ![c] = new]
        BY <1>1, <2>2 DEF Become
    <2>4. new \in Calls
        <3>1. /\ "answered" \in Pcs /\ 200 \in Codes /\ "queued" \in Engine!Statuses
              /\ j \in Jobs \cup {NoJob} /\ k \in Calls
            BY <2>1, Values
        <3> DEFINE at == [k EXCEPT !.pc = "answered"]
                   said == [at EXCEPT !.code = 200]
                   named == [said EXCEPT !.job = j]
        <3>2. at \in Calls
            BY <3>1, FieldSet
        <3>3. said \in Calls
            BY <3>1, <3>2, FieldSet
        <3>4. named \in Calls
            BY <3>1, <3>3, FieldSet
        <3>5. [named EXCEPT !.shows = "queued"] \in Calls
            BY <3>1, <3>4, FieldSet
        <3> HIDE DEF k
        <3> QED BY <3>5
    <2>5. Asked(new) /\ Made(new, {j}) /\ new.pc # "done"
        BY <2>1 DEF Asked, Made, Calls
    <2>6. Engine!TypeOK'
        BY <1>1, Shape DEF Engine!Submit, Engine!TypeOK, Engine!Statuses
    <2>7. /\ temp' \in [Callers -> BOOLEAN] /\ temp' = temp
          /\ spent' \in [Callers -> Nat] /\ faults' \in 0 .. MaxFaults
        BY <1>0, Shape
    <2>8. {j} \in SUBSET Jobs
        OBVIOUS
    <2> HIDE DEF new, k
    <2>9. MovesTo(c, new, {j})
        BY <2>3, <2>4, <2>5, <2>6, <2>7, <2>8 DEF MovesTo
    <2> QED BY <2>9, Moved
<1>2. ASSUME NEW reply \in Codes, reply >= 400, Answer(c, reply, "absent"), UNCHANGED <<engine, posts>>
      PROVE  ProxyInv'
    <2>1. "absent" \in Engine!Statuses
        BY DEF Engine!Statuses
    <2>2. faults' \in 0 .. MaxFaults /\ UNCHANGED <<engine, temp, posts, spent>>
        BY <1>0, <1>2, Shape
    <2>3. call' = [call EXCEPT ![c] = [call[c] EXCEPT !.pc = "answered", !.code = reply,
                                                      !.body = "detail", !.shows = "absent"]]
        BY <1>2 DEF Answer, Become
    <2>4. "detail" \in Bodies
        BY Values
    <2> QED BY <1>0, <1>2, <2>1, <2>2, <2>3, <2>4, AnswerKeeps
<1>3. ASSUME NEW reply \in {400, 413, 503}, Answer(c, reply, "absent"), UNCHANGED <<engine, posts>>
      PROVE  ProxyInv'
    <2>1. reply \in Codes /\ reply >= 400
        BY DEF Codes
    <2> QED BY <1>2, <1>3, <2>1
<1> QED BY <1>1, <1>3 DEF HandleSubmit

LEMMA HandleStatusKeeps ==
    ASSUME ProxyInv, NEW c \in Callers, HandleStatus(c)
    PROVE  ProxyInv'
<1> DEFINE shows == status[call[c].job]
           reply == IF shows = "absent" THEN 404 ELSE 200
<1>1. At(c, "sent") /\ call[c].op \in {"status", "wait"} /\ Answer(c, reply, shows)
      /\ UNCHANGED <<engine, temp, posts, spent, faults>>
    BY DEF HandleStatus
<1>2. shows \in Engine!Statuses
    BY <1>1, CallFields, Shape DEF Asked, Engine!TypeOK
<1>3. reply \in Codes /\ faults' \in 0 .. MaxFaults /\ call[c].op # "submit"
    BY <1>1, Shape DEF Codes
<1>4. call' = [call EXCEPT ![c] = [call[c] EXCEPT !.pc = "answered", !.code = reply,
                                                  !.body = "detail", !.shows = shows]]
    BY <1>1 DEF Answer, Become
<1>5. UNCHANGED <<engine, temp, posts, spent>> /\ "detail" \in Bodies
    BY <1>1, Values
<1> HIDE DEF shows, reply
<1> QED BY <1>1, <1>2, <1>3, <1>4, <1>5, AnswerKeeps

LEMMA HandleReportKeeps ==
    ASSUME ProxyInv, NEW c \in Callers, HandleReport(c)
    PROVE  ProxyInv'
<1> DEFINE j == call[c].job
           reply == IF call[c].kind \notin EngineKinds THEN 400
                    ELSE IF status[j] = "absent" THEN 404
                    ELSE IF status[j] # "completed" THEN 409
                    ELSE IF call[c].kind \notin published[j] THEN 404 ELSE 200
<1>1. At(c, "sent") /\ call[c].op = "report" /\ Answer(c, reply, status[j])
      /\ UNCHANGED <<engine, temp, posts, spent, faults>>
    BY DEF HandleReport
<1>2. status[j] \in Engine!Statuses
    BY <1>1, CallFields, Shape DEF Asked, Engine!TypeOK
<1>3. reply \in Codes
    BY DEF Codes
<1>4. faults' \in 0 .. MaxFaults /\ call[c].op # "submit"
    BY <1>1, Shape
<1>5. call' = [call EXCEPT ![c] = [call[c] EXCEPT !.pc = "answered", !.code = reply,
                                                  !.body = "detail", !.shows = status[j]]]
    BY <1>1 DEF Answer, Become
<1>6. UNCHANGED <<engine, temp, posts, spent>> /\ "detail" \in Bodies
    BY <1>1, Values
<1> HIDE DEF j, reply
<1> QED BY <1>1, <1>2, <1>3, <1>4, <1>5, <1>6, AnswerKeeps

LEMMA FaultCounted ==
    ASSUME ProxyInv, faults < MaxFaults, faults' = faults + 1
    PROVE  faults' \in 0 .. MaxFaults
BY Shape, TimeoutsAssumption DEF TimeoutsAssumption

LEMMA GatewayKeeps ==
    ASSUME ProxyInv, NEW c \in Callers, Gateway(c)
    PROVE  ProxyInv'
<1>1. At(c, "sent") /\ UNCHANGED <<engine, temp, posts, spent>> /\ faults' \in 0 .. MaxFaults
    BY FaultCounted DEF Gateway
<1>2. PICK reply \in Codes :
          /\ reply >= 400
          /\ call' = [call EXCEPT ![c] = [call[c] EXCEPT !.pc = "answered", !.code = reply, !.body = "page"]]
    <2>1. PICK reply \in {502, 503, 504} :
             call' = [call EXCEPT ![c] = [call[c] EXCEPT !.pc = "answered", !.code = reply, !.body = "page"]]
        BY DEF Gateway, Become
    <2>2. reply \in Codes /\ reply >= 400
        BY DEF Codes
    <2> QED BY <2>1, <2>2
<1> DEFINE k == call[c]
           new == [k EXCEPT !.pc = "answered", !.code = reply, !.body = "page"]
<1>3. k \in Calls /\ Asked(k) /\ Made(k, posts[c]) /\ posts[c] \in SUBSET Jobs /\ k.pc = "sent"
    BY CallFields, <1>1 DEF At
<1>4. new \in Calls
    <2>1. [k EXCEPT !.pc = "answered"] \in Calls
        BY <1>3, Values, FieldSet
    <2>2. [k EXCEPT !.pc = "answered", !.code = reply] \in Calls
        BY <2>1, FieldSet
    <2> QED BY <2>2, Values, FieldSet
<1>5. Asked(new) /\ Made(new, posts[c]) /\ new.pc # "done"
    BY <1>2, <1>3 DEF Asked, Made, Calls
<1>6. call' = [call EXCEPT ![c] = new] /\ posts' = [posts EXCEPT ![c] = posts[c]]
    BY CallFields, <1>1, <1>2
<1>7. Engine!TypeOK'
    BY <1>1, EngineRests
<1>8. temp' \in [Callers -> BOOLEAN] /\ temp' = temp /\ spent' \in [Callers -> Nat]
    BY <1>1, Shape
<1> HIDE DEF new, k
<1>9. MovesTo(c, new, posts[c])
    BY <1>1, <1>3, <1>4, <1>5, <1>6, <1>7, <1>8 DEF MovesTo
<1> QED BY <1>9, Moved

LEMMA RefusedKeeps ==
    ASSUME ProxyInv, NEW c \in Callers, Refused(c)
    PROVE  ProxyInv'
<1>1. /\ call[c].pc = "answered" /\ call[c].code >= 400
      /\ UNCHANGED <<engine, posts, spent, faults>> /\ faults' \in 0 .. MaxFaults
    BY Shape DEF Refused, At
<1>2. CASE More(c) /\ Again(c)
    BY <1>1, <1>2, AgainKeeps
<1>3. CASE Reply(c, PublicError(c))
    <2>1. PublicError(c) \in Codes /\ PublicError(c) # 202
        BY DEF PublicError, Codes
    <2>2. call[c].op = "submit" => posts[c] = {}
        BY <1>1, CallFields DEF Made
    <2> QED BY <1>1, <1>3, <2>1, <2>2, ReplyKeeps
<1> QED BY <1>2, <1>3 DEF Refused

LEMMA BrokenKeeps ==
    ASSUME ProxyInv, NEW c \in Callers, TimesOut(c) \/ ConnectionFails(c)
    PROVE  ProxyInv'
<1>1. /\ call[c].pc \in {"sent", "answered"}
      /\ UNCHANGED <<engine, posts, spent>> /\ faults' \in 0 .. MaxFaults
    BY Shape, FaultCounted DEF TimesOut, ConnectionFails
<1>2. CASE More(c) /\ Again(c)
    BY <1>1, <1>2, AgainKeeps
<1>3. ASSUME NEW reply \in {503, 504}, Reply(c, reply) PROVE ProxyInv'
    <2>1. reply \in Codes /\ reply # 202 /\ reply \notin 400 .. 499
        BY DEF Codes
    <2> QED BY <1>1, <1>3, <2>1, ReplyKeeps
<1> QED BY <1>2, <1>3 DEF TimesOut, ConnectionFails

LEMMA AcceptedKeeps ==
    ASSUME ProxyInv, NEW c \in Callers, Accepted(c)
    PROVE  ProxyInv'
<1>1. /\ call[c].pc = "answered" /\ call[c].code < 400 /\ call[c].op = "submit"
      /\ Reply(c, 202) /\ UNCHANGED <<engine, posts, spent>> /\ faults' \in 0 .. MaxFaults
    BY Shape DEF Accepted, Succeeded, At
<1>2. posts[c] = {call[c].job}
    <2>1. call[c].code \in Codes
        BY CallFields DEF Calls
    <2>2. ~(call[c].code >= 400)
        BY <1>1, <2>1 DEF Codes
    <2> QED BY <1>1, <2>2, CallFields DEF Made
<1>3. 202 \in Codes /\ 202 \notin 400 .. 499
    BY DEF Codes
<1> QED BY <1>1, <1>2, <1>3, ReplyKeeps

LEMMA ReceivedKeeps ==
    ASSUME ProxyInv, NEW c \in Callers, StatusReceived(c) \/ ReportReceived(c)
    PROVE  ProxyInv'
<1>1. /\ call[c].op # "submit"
      /\ UNCHANGED <<engine, posts, spent>> /\ faults' \in 0 .. MaxFaults
    BY Shape, FaultCounted DEF StatusReceived, ReportReceived
<1>2. PICK reply \in {200, 500, 502} : Reply(c, reply)
    BY DEF StatusReceived, ReportReceived
<1>3. reply \in Codes
    BY DEF Codes
<1> QED BY <1>1, <1>2, <1>3, ReplyKeeps

(* A request that waits, of any kind, only moves its clock and its position. *)
LEMMA ClockKeeps ==
    ASSUME ProxyInv, NEW c \in Callers, NEW new \in Calls,
           call' = [call EXCEPT ![c] = new], Asked(new), Made(new, posts[c]), new.pc # "done",
           UNCHANGED <<engine, temp, posts, faults>>, spent' \in [Callers -> Nat]
    PROVE  ProxyInv'
<1>1. posts' = [posts EXCEPT ![c] = posts[c]] /\ posts[c] \in SUBSET Jobs
    BY CallFields
<1>2. Engine!TypeOK'
    BY EngineRests
<1>3. MovesTo(c, new, posts[c])
    BY <1>1, <1>2, Shape DEF MovesTo
<1> QED BY <1>3, Moved

LEMMA AgedIsTyped ==
    ASSUME ProxyInv, NEW c \in Callers, Aged(c)
    PROVE  spent' \in [Callers -> Nat]
BY Shape DEF Aged

LEMMA WaitReceivedKeeps ==
    ASSUME ProxyInv, NEW c \in Callers, WaitReceived(c)
    PROVE  ProxyInv'
<1>1. /\ call[c].op = "wait" /\ UNCHANGED <<engine, posts, spent, faults>>
      /\ faults' \in 0 .. MaxFaults /\ spent' \in [Callers -> Nat]
    BY Shape DEF WaitReceived
<1>2. ASSUME NEW reply \in {200, 504}, Reply(c, reply) PROVE ProxyInv'
    <2>1. reply \in Codes
        BY DEF Codes
    <2> QED BY <1>1, <1>2, <2>1, ReplyKeeps
<1>3. CASE Become(c, [call[c] EXCEPT !.pc = "pause"]) /\ UNCHANGED temp
    <2> DEFINE k == call[c]
               new == [k EXCEPT !.pc = "pause"]
    <2>1. k \in Calls /\ Asked(k) /\ Made(k, posts[c]) /\ k.op = "wait"
        BY <1>1, CallFields
    <2>2. new \in Calls /\ new.pc # "done"
        BY <2>1, Values, FieldSet
    <2>3. Asked(new) /\ Made(new, posts[c])
        BY <2>1 DEF Asked, Made, Calls
    <2>4. call' = [call EXCEPT ![c] = new]
        BY <1>3 DEF Become
    <2> HIDE DEF new, k
    <2> QED BY <1>1, <1>3, <2>2, <2>3, <2>4, ClockKeeps
<1> QED BY <1>2, <1>3 DEF WaitReceived

LEMMA HangKeeps ==
    ASSUME ProxyInv, NEW c \in Callers, Hang(c)
    PROVE  ProxyInv'
<1> DEFINE k == call[c]
           new == [k EXCEPT !.hung = k.hung + 1]
<1>1. k \in Calls /\ Asked(k) /\ Made(k, posts[c]) /\ k.pc \in {"sent", "answered"} /\ k.hung < ReadTimeout
    BY CallFields DEF Hang
<1>2. new \in Calls /\ new.pc # "done"
    <2>1. k.hung + 1 \in Ticks
        BY <1>1, TimeoutsAssumption DEF Calls, Ticks, TimeoutsAssumption
    <2> QED BY <1>1, <2>1 DEF Calls
<1>3. Asked(new) /\ Made(new, posts[c])
    BY <1>1 DEF Asked, Made, Calls
<1>4. call' = [call EXCEPT ![c] = new] /\ UNCHANGED <<engine, temp, posts, faults>>
    BY DEF Hang, Become
<1>5. spent' \in [Callers -> Nat]
    BY AgedIsTyped DEF Hang
<1> HIDE DEF new, k
<1> QED BY <1>2, <1>3, <1>4, <1>5, ClockKeeps

LEMMA PollAgainKeeps ==
    ASSUME ProxyInv, NEW c \in Callers, PollAgain(c)
    PROVE  ProxyInv'
<1> DEFINE k == call[c]
           new == [k EXCEPT !.pc = "sent", !.attempt = 0, !.hung = 0]
<1>1. k \in Calls /\ Asked(k) /\ Made(k, posts[c]) /\ k.pc = "pause"
    BY CallFields DEF PollAgain, At
<1>2. new \in Calls /\ new.pc # "done"
    <2>1. new \in Calls
        BY <1>1, Values, FieldSet
    <2> QED BY <1>1, <2>1 DEF Calls
<1>3. Asked(new) /\ Made(new, posts[c])
    BY <1>1 DEF Asked, Made, Calls
<1>4. call' = [call EXCEPT ![c] = new] /\ UNCHANGED <<engine, temp, posts, faults>>
    BY DEF PollAgain, Become
<1>5. spent' \in [Callers -> Nat]
    BY AgedIsTyped DEF PollAgain
<1> HIDE DEF new, k
<1> QED BY <1>2, <1>3, <1>4, <1>5, ClockKeeps

LEMMA EngineWorksKeeps ==
    ASSUME ProxyInv, EngineWorks
    PROVE  ProxyInv'
<1>1. PICK j \in Jobs : Engine!Start(j) \/ Engine!Complete(j) \/ Engine!Fail(j)
    BY DEF EngineWorks
<1>2. Engine!TypeOK'
    <2>1. Engine!TypeOK
        BY Shape
    <2>2. CASE Engine!Start(j)
        BY <2>1, <2>2 DEF Engine!Start, Engine!TypeOK, Engine!Statuses
    <2>3. CASE Engine!Complete(j)
        BY <2>1, <2>3 DEF Engine!Complete, Engine!TypeOK, Engine!Statuses
    <2>4. CASE Engine!Fail(j)
        BY <2>1, <2>4 DEF Engine!Fail, Engine!TypeOK, Engine!Statuses
    <2> QED BY <1>1, <2>2, <2>3, <2>4
<1>3. UNCHANGED <<call, temp, posts, spent, faults>>
    BY DEF EngineWorks
<1> QED BY <1>2, <1>3, Shape DEF ProxyInv, ProxyTypeOK, At

(***************************************************************************)
(* The theorems.                                                           *)
(***************************************************************************)
LEMMA StartsRight ==
    ASSUME ProxyInit
    PROVE  ProxyInv
<1>1. Idle \in Calls /\ Asked(Idle) /\ Made(Idle, {}) /\ Idle.pc # "done"
    BY IdleIsACall DEF Idle, Asked, Made
<1>2. call = [c \in Callers |-> Idle] /\ posts = [c \in Callers |-> {}]
    BY DEF ProxyInit
<1>3. Engine!TypeOK
    BY DEF ProxyInit, Engine!Init, Engine!TypeOK, Engine!Statuses
<1>4. call \in [Callers -> Calls] /\ \A c \in Callers : call[c].pc # "done"
    BY <1>1, <1>2
<1>5. ProxyTypeOK
    BY <1>3, <1>4, TimeoutsAssumption DEF ProxyInit, ProxyTypeOK, At, TimeoutsAssumption, Calls, Codes, Pcs, Ops, Bodies, Tries, Ticks
<1> QED BY <1>1, <1>2, <1>5 DEF ProxyInv

LEMMA StepKeeps ==
    ASSUME ProxyInv, [ProxyNext]_proxyVars
    PROVE  ProxyInv'
<1>1. ASSUME NEW c \in Callers, EngineHandles(c) \/ Gateway(c) \/ ConnectionFails(c) PROVE ProxyInv'
    BY <1>1, HandleSubmitKeeps, HandleStatusKeeps, HandleReportKeeps, GatewayKeeps, BrokenKeeps DEF EngineHandles
<1>2. ASSUME NEW c \in Callers, Client(c) PROVE ProxyInv'
    BY <1>2, RefusedKeeps, BrokenKeeps, AcceptedKeeps, ReceivedKeeps, WaitReceivedKeeps,
       HangKeeps, PollAgainKeeps DEF Client
<1>3. ASSUME NEW c \in Callers, ArriveSubmit(c) PROVE ProxyInv'
    BY <1>3, ArriveSubmitKeeps
<1>4. ASSUME NEW c \in Callers, NEW op \in {"status", "wait"}, NEW j \in Jobs,
             ArriveGet(c, op, j, NoKind)
      PROVE  ProxyInv'
    BY <1>4, ArriveGetKeeps
<1>5. ASSUME NEW c \in Callers, NEW j \in Jobs, NEW k \in PublicKinds, ArriveGet(c, "report", j, k)
      PROVE  ProxyInv'
    BY <1>5, ArriveGetKeeps
<1>6. CASE UNCHANGED proxyVars
    BY <1>6, Shape DEF proxyVars, engine, ProxyInv, ProxyTypeOK, At, Engine!TypeOK
<1> QED BY <1>1, <1>2, <1>3, <1>4, <1>5, <1>6, EngineWorksKeeps DEF ProxyNext

(* Every variable of the orchestration keeps its type, a request that is over has
   left no temporary IFC file behind, and what the engine made for a request is
   what ProxyInv says at each point of the exchange. *)
THEOREM ProxyInvariant == ProxySpec => []ProxyInv
<1>1. ProxyInit => ProxyInv
    BY StartsRight
<1>2. ProxyInv /\ [ProxyNext]_proxyVars => ProxyInv'
    BY StepKeeps
<1> QED BY <1>1, <1>2, PTL DEF ProxySpec

(* compliance_client.py "POST upload is deliberately NOT retried": whatever the
   network and the gateways lose, a submission makes at most one job, a 202 names
   that job, and a submission that is refused with a 4xx has made none. *)
THEOREM SubmissionHasOneOutcome == ProxySpec => []SubmissionOutcome
<1>1. ProxyInv => SubmissionOutcome
    <2> SUFFICES ASSUME ProxyInv, NEW c \in Callers
                 PROVE  /\ \A j, k \in posts[c] : j = k
                        /\ Done(c, "submit") /\ call[c].code = 202 => posts[c] = {call[c].job}
                        /\ Done(c, "submit") /\ call[c].code \in 400 .. 499 => posts[c] = {}
        BY DEF SubmissionOutcome
    <2>1. Made(call[c], posts[c])
        BY Shape
    <2> QED BY <2>1 DEF Made, Done, At
<1> QED BY <1>1, ProxyInvariant, PTL
=============================================================================
