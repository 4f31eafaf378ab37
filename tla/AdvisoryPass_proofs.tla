------------------------ MODULE AdvisoryPass_proofs ------------------------
(***************************************************************************)
(* Proofs about the advisory pass and the corpus it reads, for any number  *)
(* of threads, any corpus, requests, replies and failures.                 *)
(*                                                                         *)
(* The caches of the worker process: the double-checked locks fill each    *)
(* cache once, and every lock is given back.  The preparation of the       *)
(* corpus: no command loses what an earlier one saved.  The retrieval:     *)
(* what the lists of hits are, from the legs over the table through the    *)
(* fusion, the cross-encoder, the transforms and the graph layer, and so   *)
(* what every answer of the configured stack is.                           *)
(***************************************************************************)
EXTENDS AdvisoryPass, FiniteSetTheorems, TLAPS

(***************************************************************************)
(* The caches of the worker process                                        *)
(***************************************************************************)
Locks == {"rt", "embedder", "reranker"}
States == {"unset", "none", "keyless", "published", "ready"}

\* A job with all its fields.
IsJob(j) ==
  /\ j = [f \in {"pc", "want", "todo", "retriever", "context", "early", "notes"} |-> j[f]]
  /\ j.want \in Slots

Shape ==
  /\ job = [t \in Threads |-> job[t]]
  /\ \A t \in Threads : IsJob(job[t])
  /\ slots \in [Slots -> [state : States, loads : 0 .. 1]]
  /\ locks \in [Locks -> Threads \cup {Free}]

\* Who builds has the lock, and who has a lock builds behind it.
BuilderHolds == \A t \in Threads : job[t].pc = "build" => locks[LockOf(job[t].want)] = t
HolderBuilds == \A l \in Locks : locks[l] # Free =>
                  job[locks[l]].pc = "build" /\ LockOf(job[locks[l]].want) = l

\* A cache that is not set was never loaded, and one that is being built is
\* not set yet, or half set when it is the reranker.
UnsetIsUnloaded == \A s \in Slots : slots[s].state = "unset" => slots[s].loads = 0
BuiltIsUnset ==
  \A t \in Threads : job[t].pc = "build" =>
    \/ slots[job[t].want].state = "unset"
    \/ job[t].want = "reranker"

Inv == Shape /\ BuilderHolds /\ HolderBuilds /\ UnsetIsUnloaded /\ BuiltIsUnset

LEMMA LockType == \A s \in Slots : LockOf(s) \in Locks
  BY DEF LockOf, Slots, Locks

\* A thread that is done with a cache builds nothing.
LEMMA AfterType ==
  ASSUME NEW j, IsJob(j), NEW state
  PROVE  IsJob(After(j, state)) /\ After(j, state).pc # "build"
<1>1. CASE j.want = "llm"
  BY <1>1 DEF After, IsJob, Slots
<1>2. CASE j.want = "retriever"
  BY <1>2 DEF After, IsJob, Slots
<1>3. CASE j.want = "embedder"
  BY <1>3 DEF After, IsJob, Slots
<1>4. CASE j.want = "reranker"
  BY <1>4 DEF After, IsJob, Slots
<1> QED BY <1>1, <1>2, <1>3, <1>4 DEF IsJob, Slots

\* The locks and the caches say nothing of what a thread does elsewhere.
LEMMA Elsewhere ==
  ASSUME Inv, NEW t \in Threads, NEW j, IsJob(j), j.pc # "build",
         job[t].pc # "build", Move(t, j), UNCHANGED <<slots, locks>>
  PROVE  Inv'
<1>1. Shape'
  BY DEF Inv, Shape, Move
<1>2. \A u \in Threads : u # t => job'[u] = job[u]
  BY DEF Inv, Shape, Move
<1>3. job'[t].pc # "build"
  BY DEF Inv, Shape, Move
<1>4. BuilderHolds' /\ BuiltIsUnset'
  BY <1>2, <1>3 DEF Inv, BuilderHolds, BuiltIsUnset
<1>5. HolderBuilds'
  BY <1>2, ThreadsAssumption DEF Inv, HolderBuilds, Shape, ThreadsAssumption
<1>6. UnsetIsUnloaded'
  BY DEF Inv, UnsetIsUnloaded
<1> QED BY <1>1, <1>4, <1>5, <1>6 DEF Inv

\* A thread leaves the lock; the cache behind it is set or as it was.
LEMMA Leaves ==
  ASSUME Inv, NEW t \in Threads, NEW j, IsJob(j), j.pc # "build",
         job[t].pc = "build", Move(t, j), Release(t),
         slots' \in [Slots -> [state : States, loads : 0 .. 1]], UnsetIsUnloaded',
         \A s \in Slots : s # job[t].want => slots'[s] = slots[s]
  PROVE  Inv'
<1> DEFINE lock == LockOf(job[t].want)
<1>1. lock \in Locks /\ locks[lock] = t
  BY LockType DEF Inv, Shape, IsJob, BuilderHolds
<1>2. Shape'
  BY DEF Inv, Shape, Move, Release
<1>3. \A u \in Threads : u # t => job'[u] = job[u]
  BY DEF Inv, Shape, Move
<1>4. job'[t].pc # "build"
  BY DEF Inv, Shape, Move
<1>5. \A l \in Locks : locks'[l] = IF l = lock THEN Free ELSE locks[l]
  BY DEF Inv, Shape, Release
<1>6. \A u \in Threads : u # t /\ job[u].pc = "build" =>
        LockOf(job[u].want) # lock /\ LockOf(job[u].want) \in Locks
  BY <1>1, LockType DEF Inv, BuilderHolds, Shape, IsJob
<1>7. BuilderHolds'
  BY <1>3, <1>4, <1>5, <1>6 DEF Inv, BuilderHolds
<1>8. HolderBuilds'
  <2> SUFFICES ASSUME NEW l \in Locks, locks'[l] # Free
               PROVE  job'[locks'[l]].pc = "build" /\ LockOf(job'[locks'[l]].want) = l
      BY DEF HolderBuilds
  <2>1. l # lock /\ locks'[l] = locks[l] /\ locks[l] \in Threads
    BY <1>5 DEF Inv, Shape
  <2>2. LockOf(job[locks[l]].want) = l
    BY <2>1 DEF Inv, HolderBuilds
  <2>3. locks[l] # t
    BY <2>1, <2>2
  <2> QED BY <1>3, <2>1, <2>3 DEF Inv, HolderBuilds
<1>9. BuiltIsUnset'
  <2> SUFFICES ASSUME NEW u \in Threads, job'[u].pc = "build"
               PROVE  \/ slots'[job'[u].want].state = "unset"
                      \/ job'[u].want = "reranker"
      BY DEF BuiltIsUnset
  <2>1. u # t /\ job'[u] = job[u]
    BY <1>3, <1>4
  <2>2. job[u].want # job[t].want /\ job[u].want \in Slots
    BY <1>6, <2>1 DEF Inv, Shape, IsJob
  <2> QED BY <2>1, <2>2 DEF Inv, BuiltIsUnset
<1> QED BY <1>2, <1>7, <1>8, <1>9 DEF Inv

\* Filling a cache that is not set counts its one load.
LEMMA Fills ==
  ASSUME Inv, NEW slot \in Slots, slots[slot].state = "unset",
         NEW state \in States \ {"unset"}, Fill(slot, state)
  PROVE  /\ slots' \in [Slots -> [state : States, loads : 0 .. 1]]
         /\ UnsetIsUnloaded'
         /\ slots'[slot].state = state
         /\ \A s \in Slots : s # slot => slots'[s] = slots[s]
<1>1. slots[slot].loads = 0 /\ slots \in [Slots -> [state : States, loads : 0 .. 1]]
  BY DEF Inv, Shape, UnsetIsUnloaded
<1>2. slots' = [slots EXCEPT ![slot] = [state |-> state, loads |-> 1]]
  BY <1>1 DEF Fill
<1> QED BY <1>1, <1>2 DEF Inv, UnsetIsUnloaded

\* A thread fills the cache it wants and goes on.
LEMMA FillsAndLeaves ==
  ASSUME Inv, NEW t \in Threads, job[t].pc = "build",
         job[t].want \in {"llm", "retriever", "embedder"},
         NEW state \in {"none", "keyless", "ready"},
         Fill(job[t].want, state), Move(t, After(job[t], state)), Release(t)
  PROVE  Inv'
<1>1. slots[job[t].want].state = "unset" /\ IsJob(job[t])
  BY DEF Inv, BuiltIsUnset, Shape
<1>2. job[t].want \in Slots /\ state \in States \ {"unset"}
  BY DEF Slots, States
<1>3. /\ slots' \in [Slots -> [state : States, loads : 0 .. 1]]
      /\ UnsetIsUnloaded'
      /\ \A s \in Slots : s # job[t].want => slots'[s] = slots[s]
  BY <1>1, <1>2, Fills
<1> QED BY <1>1, <1>3, AfterType, Leaves

LEMMA CheckKeeps ==
  ASSUME Inv, NEW t \in Threads, Check(t)
  PROVE  Inv'
<1>1. IsJob(job[t]) /\ job[t].pc = "check" /\ UNCHANGED <<slots, locks>>
  BY DEF Inv, Shape, Check
<1>2. CASE Move(t, After(job[t], slots[job[t].want].state))
  BY <1>1, <1>2, AfterType, Elsewhere
<1>3. CASE Move(t, [job[t] EXCEPT !.pc = "wait"])
  <2>1. IsJob([job[t] EXCEPT !.pc = "wait"]) /\ [job[t] EXCEPT !.pc = "wait"].pc # "build"
    BY <1>1 DEF IsJob
  <2> QED BY <1>1, <1>3, <2>1, Elsewhere
<1> QED BY <1>2, <1>3 DEF Check

LEMMA EnterKeeps ==
  ASSUME Inv, NEW t \in Threads, Enter(t)
  PROVE  Inv'
<1> DEFINE slot == job[t].want
           lock == LockOf(slot)
           next == [job[t] EXCEPT !.pc = "build"]
<1>1. /\ IsJob(job[t]) /\ job[t].pc = "wait" /\ UNCHANGED slots
      /\ lock \in Locks /\ slot \in Slots /\ locks[lock] = Free
  BY LockType DEF Inv, Shape, IsJob, Enter
<1>2. CASE Move(t, After(job[t], slots[slot].state)) /\ UNCHANGED locks
  BY <1>1, <1>2, AfterType, Elsewhere
<1>3. CASE /\ ~Filled(slot) /\ Move(t, next) /\ locks' = [locks EXCEPT ![lock] = t]
  <2>1. IsJob(next) /\ next.pc = "build" /\ next.want = slot
    BY <1>1 DEF IsJob
  <2>2. Shape'
    BY <1>1, <1>3, <2>1 DEF Inv, Shape, Move
  <2>3. job'[t] = next /\ \A u \in Threads : u # t => job'[u] = job[u]
    BY <1>3 DEF Inv, Shape, Move
  <2>4. \A l \in Locks : locks'[l] = IF l = lock THEN t ELSE locks[l]
    BY <1>1, <1>3 DEF Inv, Shape
  <2>5. BuilderHolds'
    <3> SUFFICES ASSUME NEW u \in Threads, job'[u].pc = "build"
                 PROVE  locks'[LockOf(job'[u].want)] = u
        BY DEF BuilderHolds
    <3>1. CASE u = t
      BY <1>1, <2>1, <2>3, <2>4, <3>1
    <3>2. CASE u # t
      <4>1. job'[u] = job[u] /\ locks[LockOf(job[u].want)] = u
        BY <2>3, <3>2 DEF Inv, BuilderHolds
      <4>2. LockOf(job[u].want) \in Locks /\ u # Free
        BY LockType, ThreadsAssumption DEF Inv, Shape, IsJob, ThreadsAssumption
      <4> QED BY <1>1, <2>4, <4>1, <4>2
    <3> QED BY <3>1, <3>2
  <2>6. HolderBuilds'
    <3> SUFFICES ASSUME NEW l \in Locks, locks'[l] # Free
                 PROVE  job'[locks'[l]].pc = "build" /\ LockOf(job'[locks'[l]].want) = l
        BY DEF HolderBuilds
    <3>1. CASE l = lock
      BY <2>1, <2>3, <2>4, <3>1
    <3>2. CASE l # lock
      <4>1. locks'[l] = locks[l] /\ locks[l] \in Threads /\ job[locks[l]].pc = "build"
        BY <2>4, <3>2 DEF Inv, Shape, HolderBuilds
      <4>2. locks[l] # t
        BY <1>1, <4>1
      <4> QED BY <2>3, <4>1, <4>2 DEF Inv, HolderBuilds
    <3> QED BY <3>1, <3>2
  <2>7. BuiltIsUnset'
    <3>1. slots[slot].state = "unset"
      BY <1>3 DEF Filled
    <3> QED BY <1>1, <2>1, <2>3, <3>1 DEF Inv, BuiltIsUnset
  <2>8. UnsetIsUnloaded'
    BY <1>1 DEF Inv, UnsetIsUnloaded
  <2> QED BY <2>2, <2>5, <2>6, <2>7, <2>8 DEF Inv
<1> QED BY <1>2, <1>3 DEF Enter

LEMMA BuildKeeps ==
  ASSUME Inv, NEW t \in Threads, BuildLlm(t) \/ BuildRetriever(t) \/ LoadEmbedder(t)
  PROVE  Inv'
<1>1. CASE BuildLlm(t)
  <2>1. PICK env \in LlmEnvs : /\ Fill("llm", LlmOf(env))
                               /\ Move(t, After(job[t], LlmOf(env)))
    BY <1>1 DEF BuildLlm
  <2>2. LlmOf(env) \in {"none", "keyless", "ready"}
    BY DEF LlmOf
  <2> QED BY <1>1, <2>1, <2>2, FillsAndLeaves DEF BuildLlm
<1>2. CASE BuildRetriever(t)
  <2> DEFINE state == IF Readable THEN "ready" ELSE "none"
  <2>1. /\ job[t].pc = "build" /\ job[t].want = "retriever" /\ Release(t)
        /\ Fill("retriever", state) /\ Move(t, After(job[t], state))
    BY <1>2 DEF BuildRetriever
  <2>2. state \in {"none", "keyless", "ready"}
    OBVIOUS
  <2> HIDE DEF state
  <2> QED BY <2>1, <2>2, FillsAndLeaves
<1>3. CASE LoadEmbedder(t)
  BY <1>3, FillsAndLeaves DEF LoadEmbedder
<1> QED BY <1>1, <1>2, <1>3

LEMMA RerankerKeeps ==
  ASSUME Inv, NEW t \in Threads, PublishReranker(t) \/ FinishReranker(t)
  PROVE  Inv'
<1>1. CASE PublishReranker(t)
  <2>1. /\ slots["reranker"].state = "unset" /\ "reranker" \in Slots
        /\ Fill("reranker", "published") /\ "published" \in States \ {"unset"}
        /\ UNCHANGED <<job, locks>>
    BY <1>1 DEF PublishReranker, Filled, Slots, States
  <2>2. /\ slots' \in [Slots -> [state : States, loads : 0 .. 1]]
        /\ UnsetIsUnloaded'
        /\ \A s \in Slots : s # "reranker" => slots'[s] = slots[s]
    BY <2>1, Fills
  <2>3. Shape'
    BY <2>1, <2>2 DEF Inv, Shape
  <2>4. BuilderHolds' /\ HolderBuilds'
    BY <2>1 DEF Inv, BuilderHolds, HolderBuilds
  <2>5. BuiltIsUnset'
    BY <2>1, <2>2 DEF Inv, BuiltIsUnset, Shape, IsJob
  <2> QED BY <2>2, <2>3, <2>4, <2>5 DEF Inv
<1>2. CASE FinishReranker(t)
  <2>1. /\ job[t].pc = "build" /\ job[t].want = "reranker" /\ Release(t)
        /\ slots' = [slots EXCEPT !["reranker"].state = "ready"]
        /\ Move(t, After(job[t], "ready")) /\ IsJob(job[t])
    BY <1>2 DEF FinishReranker, Inv, Shape
  <2>2. slots \in [Slots -> [state : States, loads : 0 .. 1]] /\ "reranker" \in Slots
    BY DEF Inv, Shape, Slots
  <2>3. \A s \in Slots : s # "reranker" => slots'[s] = slots[s]
    BY <2>1, <2>2
  <2>4. slots'["reranker"].state = "ready"
        /\ slots' \in [Slots -> [state : States, loads : 0 .. 1]]
    BY <2>1, <2>2 DEF States
  <2>5. UnsetIsUnloaded'
    BY <2>3, <2>4 DEF Inv, UnsetIsUnloaded
  <2> QED BY <2>1, <2>3, <2>4, <2>5, AfterType, Leaves
<1> QED BY <1>1, <1>2

LEMMA FailureKeeps ==
  ASSUME Inv, NEW t \in Threads, LoadFails(t)
  PROVE  Inv'
<1>1. /\ job[t].pc = "build" /\ Release(t) /\ Move(t, After(job[t], "none"))
      /\ UNCHANGED slots /\ IsJob(job[t])
  BY DEF LoadFails, Inv, Shape
<1>2. /\ slots' \in [Slots -> [state : States, loads : 0 .. 1]]
      /\ UnsetIsUnloaded'
  BY <1>1 DEF Inv, Shape, UnsetIsUnloaded
<1> QED BY <1>1, <1>2, AfterType, Leaves

LEMMA PassKeeps ==
  ASSUME Inv, NEW t \in Threads,
         StartJob(t) \/ OwnRetriever(t) \/ NextClause(t) \/ RetrieveContext(t) \/ Advise(t)
  PROVE  Inv'
<1>1. IsJob(job[t])
  BY DEF Inv, Shape
<1>2. CASE StartJob(t)
  <2> DEFINE next == [job[t] EXCEPT !.pc = "check"]
  <2>1. IsJob(next) /\ next.pc # "build"
    BY <1>1 DEF IsJob
  <2> QED BY <1>2, <2>1, Elsewhere DEF StartJob
<1>3. CASE OwnRetriever(t)
  <2> DEFINE next == [job[t] EXCEPT !.pc = "clause",
                                    !.retriever = IF Readable THEN "own" ELSE "none"]
  <2>1. IsJob(next) /\ next.pc # "build"
    BY <1>1 DEF IsJob
  <2>2. job[t].pc # "build" /\ Move(t, next) /\ UNCHANGED <<slots, locks>>
    BY <1>3 DEF OwnRetriever
  <2> HIDE DEF next
  <2> QED BY <2>1, <2>2, Elsewhere
<1>4. CASE NextClause(t)
  <2>1. PICK next \in {[job[t] EXCEPT !.pc = "done"],
                       [job[t] EXCEPT !.pc = "advise", !.context = FALSE],
                       [job[t] EXCEPT !.pc = "check", !.want = "embedder"]} : Move(t, next)
    BY <1>4 DEF NextClause
  <2>2. IsJob(next) /\ next.pc # "build"
    BY <1>1, <2>1 DEF IsJob, Slots
  <2>3. job[t].pc # "build" /\ UNCHANGED <<slots, locks>>
    BY <1>4 DEF NextClause
  <2> QED BY <2>1, <2>2, <2>3, Elsewhere
<1>5. CASE RetrieveContext(t)
  <2>1. PICK c : Move(t, [job[t] EXCEPT !.pc = "advise", !.context = c])
    BY <1>5 DEF RetrieveContext
  <2> DEFINE next == [job[t] EXCEPT !.pc = "advise", !.context = c]
  <2>2. IsJob(next) /\ next.pc # "build"
    BY <1>1 DEF IsJob
  <2>3. job[t].pc # "build" /\ UNCHANGED <<slots, locks>> /\ Move(t, next)
    BY <1>5, <2>1 DEF RetrieveContext
  <2> HIDE DEF next
  <2> QED BY <2>2, <2>3, Elsewhere
<1>6. CASE Advise(t)
  <2>1. PICK n : Move(t, [job[t] EXCEPT !.pc = "clause", !.todo = Tail(@), !.notes = n])
    BY <1>6 DEF Advise
  <2> DEFINE next == [job[t] EXCEPT !.pc = "clause", !.todo = Tail(@), !.notes = n]
  <2>2. IsJob(next) /\ next.pc # "build"
    BY <1>1 DEF IsJob
  <2>3. job[t].pc # "build" /\ UNCHANGED <<slots, locks>> /\ Move(t, next)
    BY <1>6, <2>1 DEF Advise
  <2> HIDE DEF next
  <2> QED BY <2>2, <2>3, Elsewhere
<1> QED BY <1>2, <1>3, <1>4, <1>5, <1>6

LEMMA StepKeeps ==
  ASSUME Inv, [Next]_vars
  PROVE  Inv'
<1>1. CASE PrepareCorpus \/ Ask \/ AskQdrant \/ Forget \/ UNCHANGED vars
  <2>1. UNCHANGED <<job, slots, locks>>
    BY <1>1 DEF PrepareCorpus, Ask, AskQdrant, Forget, vars, serveVars
  <2> QED BY <2>1 DEF Inv, Shape, BuilderHolds, HolderBuilds, UnsetIsUnloaded, BuiltIsUnset
<1>2. CASE \E t \in Threads : Step(t)
  <2>1. PICK t \in Threads : Step(t)
    BY <1>2
  <2> QED
    BY <2>1, CheckKeeps, EnterKeeps, BuildKeeps, RerankerKeeps, FailureKeeps, PassKeeps DEF Step
<1> QED BY <1>1, <1>2 DEF Next

\* Every cache of the worker process, the model client, the retriever, the
\* embedder and the reranker, is filled at most once however many jobs want
\* it at a time and whatever fails, and a lock is held only by a thread that
\* fills the cache behind it.
THEOREM CachesFilledOnce == Spec => []FilledOnce
<1>1. Init => Inv
  <2> SUFFICES ASSUME Init PROVE Inv
      OBVIOUS
  <2>1. Shape
    <3>1. \A t \in Threads : IsJob(job[t])
      <4> SUFFICES ASSUME NEW t \in Threads PROVE IsJob(job[t])
          OBVIOUS
      <4>1. job[t] = NewJob(t)
        BY DEF Init
      <4>2. IsJob(NewJob(t))
        BY DEF IsJob, NewJob, Slots
      <4> QED BY <4>1, <4>2
    <3>2. job = [t \in Threads |-> job[t]]
      BY DEF Init
    <3>3. slots \in [Slots -> [state : States, loads : 0 .. 1]]
      BY DEF Init, States
    <3>4. locks \in [Locks -> Threads \cup {Free}]
      BY DEF Init, Locks
    <3> QED BY <3>1, <3>2, <3>3, <3>4 DEF Shape
  <2>2. \A t \in Threads : job[t].pc = "idle"
    BY DEF Init, NewJob
  <2> QED
    BY <2>1, <2>2 DEF Init, Inv, BuilderHolds, HolderBuilds, UnsetIsUnloaded, BuiltIsUnset, Locks
<1>2. Inv /\ [Next]_vars => Inv'
  BY StepKeeps
<1>3. Inv => FilledOnce
  <2> SUFFICES ASSUME Inv PROVE FilledOnce
      OBVIOUS
  <2>1. \A s \in Slots : slots[s].loads <= 1
    BY DEF Inv, Shape
  <2>2. DOMAIN locks = Locks
    BY DEF Inv, Shape
  <2> QED BY <2>1, <2>2 DEF Inv, HolderBuilds, FilledOnce
<1> QED BY <1>1, <1>2, <1>3, PTL DEF Spec

(***************************************************************************)
(* Orders, and the lists a finite set has in one                           *)
(***************************************************************************)
\* R puts the elements of S in one line.
Orders(R, S) ==
  /\ \A a \in S : <<a, a>> \notin R
  /\ \A a, b, c \in S : <<a, b>> \in R /\ <<b, c>> \in R => <<a, c>> \in R
  /\ \A a, b \in S : a # b => <<a, b>> \in R \/ <<b, a>> \in R

\* s lists the elements of S, each once, as R orders them.
Lists(s, S, R) ==
  /\ s \in Seq(S)
  /\ Len(s) = Cardinality(S)
  /\ \A a \in S : \E n \in 1 .. Len(s) : s[n] = a
  /\ \A m, n \in 1 .. Len(s) : m < n => <<s[m], s[n]>> \in R

\* A finite set that an order puts in one line is listed by Ranked: the number
\* of the elements before it tells the elements apart, and takes every value
\* below the size of the set.
LEMMA RankedLists ==
  ASSUME NEW S, IsFiniteSet(S), NEW R, Orders(R, S)
  PROVE  Lists(Ranked(S, R), S, R)
<1> DEFINE pred(a) == {b \in S : <<b, a>> \in R}
           N == Cardinality(S)
           rank == [a \in S |-> Cardinality(pred(a)) + 1]
<1>1. N \in Nat
  BY FS_CardinalityType
<1>2. \A a \in S : IsFiniteSet(pred(a)) /\ Cardinality(pred(a)) \in Nat
  <2> SUFFICES ASSUME NEW a \in S PROVE IsFiniteSet(pred(a)) /\ Cardinality(pred(a)) \in Nat
      OBVIOUS
  <2>1. IsFiniteSet(pred(a))
    BY FS_Subset
  <2> HIDE DEF pred
  <2> QED BY <2>1, FS_CardinalityType
<1>3. \A a \in S : Cardinality(pred(a)) < N
  <2> SUFFICES ASSUME NEW a \in S PROVE Cardinality(pred(a)) < N
      OBVIOUS
  <2>1. pred(a) \in SUBSET S /\ pred(a) # S
    BY DEF Orders
  <2> HIDE DEF pred
  <2>2. Cardinality(pred(a)) <= N /\ Cardinality(pred(a)) # N
    BY <2>1, FS_Subset
  <2> QED BY <1>1, <1>2, <2>2
<1>4. \A a, b \in S : <<a, b>> \in R => Cardinality(pred(a)) < Cardinality(pred(b))
  <2> SUFFICES ASSUME NEW a \in S, NEW b \in S, <<a, b>> \in R
               PROVE  Cardinality(pred(a)) < Cardinality(pred(b))
      OBVIOUS
  <2>1. pred(a) \in SUBSET pred(b) /\ pred(a) # pred(b)
    BY DEF Orders
  <2>2. IsFiniteSet(pred(b))
    BY <1>2
  <2> HIDE DEF pred
  <2>3. Cardinality(pred(a)) <= Cardinality(pred(b)) /\ Cardinality(pred(a)) # Cardinality(pred(b))
    BY <2>1, <2>2, FS_Subset
  <2> QED BY <1>2, <2>3
<1> HIDE DEF pred
<1>5. rank \in [S -> 1 .. N]
  BY <1>1, <1>2, <1>3
<1>6. \A a, b \in S : rank[a] = rank[b] => a = b
  <2> SUFFICES ASSUME NEW a \in S, NEW b \in S, rank[a] = rank[b], a # b PROVE FALSE
      OBVIOUS
  <2>1. Cardinality(pred(a)) = Cardinality(pred(b))
    BY <1>2
  <2>2. <<a, b>> \in R \/ <<b, a>> \in R
    BY DEF Orders
  <2> QED BY <1>2, <1>4, <2>1, <2>2
<1>7. rank \in Injection(S, 1 .. N)
  BY <1>5, <1>6 DEF Injection, IsInjective
<1>8. IsFiniteSet(1 .. N) /\ Cardinality(1 .. N) = N
  BY <1>1, FS_Interval
<1>9. rank \in Surjection(S, 1 .. N)
  <2> HIDE DEF rank
  <2> QED BY <1>7, <1>8, FS_Injection
<1>10. \A n \in 1 .. N : \E a \in S : Cardinality(pred(a)) = n - 1
  <2> SUFFICES ASSUME NEW n \in 1 .. N PROVE \E a \in S : Cardinality(pred(a)) = n - 1
      OBVIOUS
  <2>1. PICK a \in S : rank[a] = n
    BY <1>9 DEF Surjection
  <2>2. Cardinality(pred(a)) + 1 = n
    BY <2>1
  <2>3. Cardinality(pred(a)) = n - 1
    BY <1>1, <1>2, <2>2
  <2> QED BY <2>3
<1> DEFINE s == Ranked(S, R)
<1>11. s = [n \in 1 .. N |-> CHOOSE a \in S : Cardinality(pred(a)) = n - 1]
  BY DEF Ranked, pred
<1>12. \A n \in 1 .. N : s[n] \in S /\ Cardinality(pred(s[n])) = n - 1
  BY <1>10, <1>11
<1>13. s \in Seq(S) /\ Len(s) = N
  BY <1>1, <1>11, <1>12
<1>14. \A a \in S : \E n \in 1 .. N : s[n] = a
  <2> SUFFICES ASSUME NEW a \in S PROVE \E n \in 1 .. N : s[n] = a
      OBVIOUS
  <2>1. rank[a] \in 1 .. N /\ Cardinality(pred(a)) = rank[a] - 1
    BY <1>2, <1>5
  <2> DEFINE n == rank[a]
  <2>2. s[n] \in S /\ Cardinality(pred(s[n])) = n - 1
    BY <1>12, <2>1
  <2>3. rank[s[n]] = rank[a]
    BY <1>2, <2>1, <2>2
  <2> QED BY <1>6, <2>1, <2>2, <2>3
<1>15. \A m, n \in 1 .. N : m < n => <<s[m], s[n]>> \in R
  <2> SUFFICES ASSUME NEW m \in 1 .. N, NEW n \in 1 .. N, m < n PROVE <<s[m], s[n]>> \in R
      OBVIOUS
  <2>1. /\ s[m] \in S /\ Cardinality(pred(s[m])) = m - 1
        /\ s[n] \in S /\ Cardinality(pred(s[n])) = n - 1
    BY <1>12
  <2>2. s[m] # s[n] /\ ~(Cardinality(pred(s[n])) < Cardinality(pred(s[m])))
    BY <1>1, <2>1
  <2>3. <<s[n], s[m]>> \notin R
    BY <1>4, <2>1, <2>2
  <2> QED BY <2>1, <2>2, <2>3 DEF Orders
<1> HIDE DEF s
<1> QED BY <1>13, <1>14, <1>15 DEF Lists, s

\* Positions are ordered by <, so a set of positions has a first one.
LEMMA PositionsInOrder ==
  ASSUME NEW n \in Nat, NEW K \in SUBSET (1 .. n)
  PROVE  /\ IsFiniteSet(K)
         /\ Orders({p \in K \X K : p[1] < p[2]}, K)
         /\ Lists(InOrder(K), K, {p \in K \X K : p[1] < p[2]})
<1>1. IsFiniteSet(K)
  <2>1. IsFiniteSet(1 .. n)
    BY FS_Interval
  <2> QED BY <2>1, FS_Subset
<1>2. Orders({p \in K \X K : p[1] < p[2]}, K)
  BY DEF Orders
<1>3. InOrder(K) = Ranked(K, {p \in K \X K : p[1] < p[2]})
  BY DEF InOrder
<1> QED BY <1>1, <1>2, <1>3, RankedLists

LEMMA FirstPosition ==
  ASSUME NEW n \in Nat, NEW K \in SUBSET (1 .. n), K # {}
  PROVE  \E i \in K : \A k \in K : i <= k
<1> DEFINE R == {p \in K \X K : p[1] < p[2]}
           s == InOrder(K)
<1>1. Lists(s, K, R)
  BY PositionsInOrder
<1> HIDE DEF s
<1>2. PICK k \in K : TRUE
  OBVIOUS
<1>3. Len(s) \in Nat /\ 1 \in 1 .. Len(s) /\ s[1] \in K
  BY <1>1, <1>2 DEF Lists
<1>4. ASSUME NEW j \in K PROVE s[1] <= j
  <2>1. PICK m \in 1 .. Len(s) : s[m] = j
    BY <1>1 DEF Lists
  <2>2. m = 1 \/ 1 < m
    BY <1>3
  <2>3. m = 1 \/ <<s[1], s[m]>> \in R
    BY <1>1, <1>3, <2>2 DEF Lists
  <2>4. \A x \in K : x \in Int
    OBVIOUS
  <2>5. CASE m = 1
    <3>1. s[1] = j
      BY <2>1, <2>5
    <3> QED BY <2>4, <3>1
  <2>6. CASE <<s[1], s[m]>> \in R
    <3>1. s[1] < s[m]
      BY <2>6
    <3>2. s[1] \in Int /\ j \in Int
      BY <1>3, <2>4
    <3> QED BY <2>1, <3>1, <3>2
  <2> QED BY <2>3, <2>5, <2>6
<1> QED BY <1>3, <1>4

\* What is at a set of positions of a sequence.
LEMMA AtHolds ==
  ASSUME NEW T, NEW seq \in Seq(T), NEW K \in SUBSET DOMAIN seq
  PROVE  At(seq, K) \in Seq(T) /\ ToSet(At(seq, K)) = {seq[i] : i \in K}
<1> DEFINE R == {p \in K \X K : p[1] < p[2]}
           place == InOrder(K)
           s == At(seq, K)
<1>1. Lists(place, K, R)
  <2>1. Len(seq) \in Nat /\ DOMAIN seq = 1 .. Len(seq)
    OBVIOUS
  <2> QED BY <2>1, PositionsInOrder
<1> HIDE DEF place
<1>2. place \in Seq(K) /\ DOMAIN place = 1 .. Len(place) /\ Len(place) \in Nat
  BY <1>1 DEF Lists
<1>3. s = [n \in DOMAIN place |-> seq[place[n]]]
  BY <1>1, <1>2 DEF At, Lists, place
<1> HIDE DEF s
<1>4. \A n \in 1 .. Len(place) : place[n] \in K /\ seq[place[n]] \in T
  BY <1>2
<1>5. s \in Seq(T) /\ DOMAIN s = 1 .. Len(place)
  BY <1>2, <1>3, <1>4
<1>6. \A n \in DOMAIN s : \E i \in K : s[n] = seq[i]
  BY <1>2, <1>3, <1>4, <1>5
<1>7. \A i \in K : \E n \in DOMAIN s : s[n] = seq[i]
  BY <1>1, <1>2, <1>3, <1>5 DEF Lists
<1>8. ToSet(s) = {seq[i] : i \in K}
  BY <1>6, <1>7 DEF ToSet
<1> QED BY <1>5, <1>8 DEF s

LEMMA FirstOfEachHolds ==
  ASSUME NEW T, NEW seq \in Seq(T)
  PROVE  FirstOfEach(seq) \in Seq(T) /\ ToSet(FirstOfEach(seq)) = ToSet(seq)
<1> DEFINE K == {i \in DOMAIN seq : \A j \in 1 .. i - 1 : seq[j] # seq[i]}
<1>1. K \in SUBSET DOMAIN seq /\ Len(seq) \in Nat /\ DOMAIN seq = 1 .. Len(seq)
  OBVIOUS
<1>2. FirstOfEach(seq) = At(seq, K)
  BY DEF FirstOfEach
<1>3. ASSUME NEW k \in DOMAIN seq PROVE \E i \in K : seq[i] = seq[k]
  <2> DEFINE same == {j \in DOMAIN seq : seq[j] = seq[k]}
  <2>1. same \in SUBSET (1 .. Len(seq)) /\ same # {}
    BY <1>1
  <2>2. PICK i \in same : \A j \in same : i <= j
    BY <1>1, <2>1, FirstPosition
  <2>3. ASSUME NEW j \in 1 .. i - 1 PROVE seq[j] # seq[i]
    <3>1. i \in 1 .. Len(seq) /\ seq[i] = seq[k]
      BY <1>1, <2>2
    <3>2. j \in DOMAIN seq /\ ~(i <= j)
      BY <1>1, <3>1
    <3> QED BY <2>2, <3>1, <3>2
  <2> QED BY <2>2, <2>3
<1>4. {seq[i] : i \in K} = ToSet(seq)
  BY <1>1, <1>3 DEF ToSet
<1> HIDE DEF K
<1> QED BY <1>1, <1>2, <1>4, AtHolds

\* Taking from the front of a sequence.
LEMMA TakeHolds ==
  ASSUME NEW T, NEW seq \in Seq(T), NEW k \in Nat
  PROVE  /\ Take(seq, k) \in Seq(T)
         /\ Len(Take(seq, k)) = IF Len(seq) < k THEN Len(seq) ELSE k
         /\ ToSet(Take(seq, k)) \subseteq ToSet(seq)
         /\ \A i \in 1 .. Len(Take(seq, k)) : Take(seq, k)[i] = seq[i]
         /\ Len(seq) <= k => Take(seq, k) = seq
<1> DEFINE n == IF Len(seq) < k THEN Len(seq) ELSE k
           s == Take(seq, k)
<1>1. n \in Nat /\ n <= Len(seq) /\ Len(seq) \in Nat /\ DOMAIN seq = 1 .. Len(seq)
  OBVIOUS
<1>2. s = [i \in 1 .. n |-> seq[i]]
  BY DEF Take
<1> HIDE DEF n, s
<1>3. \A i \in 1 .. n : seq[i] \in T /\ i \in DOMAIN seq
  BY <1>1
<1>4. s \in Seq(T) /\ Len(s) = n /\ DOMAIN s = 1 .. n
  BY <1>1, <1>2, <1>3
<1>5. \A i \in 1 .. n : s[i] = seq[i]
  BY <1>2
<1>6. ToSet(s) \subseteq ToSet(seq)
  BY <1>3, <1>4, <1>5 DEF ToSet
<1>7. Len(seq) <= k => s = seq
  BY <1>1, <1>2, <1>4 DEF n
<1> QED BY <1>4, <1>5, <1>6, <1>7 DEF n, s

LEMMA TakeTwice ==
  ASSUME NEW T, NEW seq \in Seq(T), NEW k \in Nat, NEW m \in Nat, k <= m
  PROVE  Take(Take(seq, m), k) = Take(seq, k)
<1> DEFINE long == Take(seq, m)
<1>1. /\ long \in Seq(T) /\ Len(long) = IF Len(seq) < m THEN Len(seq) ELSE m
      /\ \A i \in 1 .. Len(long) : long[i] = seq[i]
  BY TakeHolds
<1> HIDE DEF long
<1> DEFINE n == IF Len(seq) < k THEN Len(seq) ELSE k
<1>2. (IF Len(long) < k THEN Len(long) ELSE k) = n /\ n <= Len(long) /\ Len(seq) \in Nat
  BY <1>1
<1>3. \A i \in 1 .. n : long[i] = seq[i]
  BY <1>1, <1>2
<1>4. Take(long, k) = [i \in 1 .. n |-> long[i]] /\ Take(seq, k) = [i \in 1 .. n |-> seq[i]]
  BY <1>2 DEF Take
<1> HIDE DEF n
<1> QED BY <1>3, <1>4 DEF long

(***************************************************************************)
(* The preparation of the corpus                                           *)
(***************************************************************************)
ContextFiles ==
  [state : {"absent", "whole", "torn"}, clauses : Seq(AllClauses),
   ids : SUBSET ArticleIds, runs : Nat]

PrepType ==
  /\ classifier \in [chunk : 0 .. Len(Chunks), clauses : Seq(AllClauses), runs : Nat]
  /\ file.clauses \in Seq(AllClauses)
  /\ contexts \in ContextFiles
  /\ DOMAIN rows \subseteq ArticleIds
  /\ \A id \in DOMAIN rows : rows[id].id = id
  /\ graph.clauses \in Seq(ArticleIds) /\ IsFiniteSet(graph.edges)

\* A running classifier has the clauses of a file that can be read.
ClassifierFollowsFile ==
  Running => file.state # "torn" /\ classifier.clauses = file.clauses

\* While the file can be read, a context is one of a clause it holds.
ContextsOfFile ==
  file.state # "torn" => contexts.ids \subseteq IdsOf(Ingestable(file.clauses))

PrepInv == PrepType /\ ClassifierFollowsFile /\ ContextsOfFile

LEMMA Concatenated ==
  ASSUME NEW T, NEW s \in Seq(T), NEW t \in Seq(T)
  PROVE  /\ s \o t \in Seq(T)
         /\ ToSet(s \o t) = ToSet(s) \cup ToSet(t)
         /\ IsPrefix(s, s \o t)
<1>1. /\ s \o t \in Seq(T) /\ Len(s \o t) = Len(s) + Len(t)
      /\ Len(s) \in Nat /\ Len(t) \in Nat
      /\ DOMAIN s = 1 .. Len(s) /\ DOMAIN t = 1 .. Len(t)
      /\ DOMAIN (s \o t) = 1 .. (Len(s) + Len(t))
  OBVIOUS
<1>2. \A i \in 1 .. Len(s) : (s \o t)[i] = s[i]
  OBVIOUS
<1>3. \A i \in 1 .. Len(t) : (s \o t)[Len(s) + i] = t[i]
  OBVIOUS
<1>4. \A i \in DOMAIN (s \o t) : (s \o t)[i] \in ToSet(s) \cup ToSet(t)
  <2> SUFFICES ASSUME NEW i \in 1 .. (Len(s) + Len(t))
               PROVE  (s \o t)[i] \in ToSet(s) \cup ToSet(t)
      BY <1>1
  <2>1. CASE i <= Len(s)
    BY <1>1, <1>2, <2>1 DEF ToSet
  <2>2. CASE ~(i <= Len(s))
    <3>1. i - Len(s) \in 1 .. Len(t) /\ i = Len(s) + (i - Len(s))
      BY <1>1, <2>2
    <3> QED BY <1>1, <1>3, <3>1 DEF ToSet
  <2> QED BY <2>1, <2>2
<1>5. ToSet(s) \cup ToSet(t) \subseteq ToSet(s \o t)
  <2>1. \A i \in DOMAIN s : i \in DOMAIN (s \o t) /\ (s \o t)[i] = s[i]
    BY <1>1, <1>2
  <2>2. \A i \in DOMAIN t : Len(s) + i \in DOMAIN (s \o t) /\ (s \o t)[Len(s) + i] = t[i]
    BY <1>1, <1>3
  <2> QED BY <2>1, <2>2 DEF ToSet
<1>6. ToSet(s \o t) = ToSet(s) \cup ToSet(t)
  BY <1>4, <1>5 DEF ToSet
<1>7. IsPrefix(s, s \o t)
  BY <1>1, <1>2 DEF IsPrefix
<1> QED BY <1>1, <1>6, <1>7

LEMMA PrefixOfItself ==
  ASSUME NEW T, NEW s \in Seq(T)
  PROVE  IsPrefix(s, s)
BY DEF IsPrefix

LEMMA IdsOfHolds ==
  ASSUME NEW T, NEW s \in Seq(T)
  PROVE  IdsOf(s) = {c.id : c \in ToSet(s)}
BY DEF IdsOf, ToSet

LEMMA IngestableHolds ==
  ASSUME NEW T, NEW s \in Seq(T)
  PROVE  /\ Ingestable(s) \in Seq(T)
         /\ ToSet(Ingestable(s)) = {c \in ToSet(s) : c.skip = "none"}
<1> DEFINE K == {i \in DOMAIN s : s[i].skip = "none"}
<1>1. Ingestable(s) = At(s, K)
  BY DEF Ingestable, Keep
<1>2. K \in SUBSET DOMAIN s
  OBVIOUS
<1>3. {s[i] : i \in K} = {c \in ToSet(s) : c.skip = "none"}
  BY DEF ToSet
<1> HIDE DEF K
<1> QED BY <1>1, <1>2, <1>3, AtHolds

LEMMA AdoptKeeps ==
  ASSUME NEW T, NEW ans \in Seq(T), NEW known \in Seq(T)
  PROVE  Adopt(ans, known) \in Seq(T) /\ IsPrefix(known, Adopt(ans, known))
<1> DEFINE K == {i \in DOMAIN ans : ans[i].complete /\ ans[i].id \notin IdsOf(known)}
           complete == At(ans, K)
           L == {i \in DOMAIN complete : \A j \in 1 .. i - 1 : complete[j].id # complete[i].id}
<1>1. Adopt(ans, known) = known \o At(complete, L)
  BY DEF Adopt, Keep
<1>2. complete \in Seq(T)
  <2>1. K \in SUBSET DOMAIN ans
    OBVIOUS
  <2> HIDE DEF K
  <2> QED BY <2>1, AtHolds
<1> HIDE DEF complete
<1>3. L \in SUBSET DOMAIN complete
  OBVIOUS
<1> HIDE DEF L
<1>4. At(complete, L) \in Seq(T)
  BY <1>2, <1>3, AtHolds
<1> QED BY <1>1, <1>4, Concatenated

LEMMA ContextualizedKeeps ==
  ASSUME NEW T, NEW s \in Seq(T), NEW existing, existing \subseteq IdsOf(Ingestable(s)),
         NEW limit \in Nat, NEW failed
  PROVE  /\ existing \subseteq Contextualized(s, existing, limit, failed)
         /\ Contextualized(s, existing, limit, failed) \subseteq IdsOf(Ingestable(s))
<1> DEFINE eligible == Ingestable(s)
           K == {i \in DOMAIN eligible : eligible[i].id \notin existing}
           called == At(eligible, K)
<1>1. Contextualized(s, existing, limit, failed)
        = (existing \cap IdsOf(eligible)) \cup (IdsOf(Take(called, limit)) \ failed)
  BY DEF Contextualized, Keep
<1>2. eligible \in Seq(T)
  BY IngestableHolds
<1> HIDE DEF eligible
<1>3. called \in Seq(T) /\ ToSet(called) \subseteq ToSet(eligible)
  <2>1. K \in SUBSET DOMAIN eligible
    OBVIOUS
  <2> HIDE DEF K
  <2>2. At(eligible, K) \in Seq(T) /\ ToSet(At(eligible, K)) = {eligible[i] : i \in K}
    BY <1>2, <2>1, AtHolds
  <2> QED BY <2>1, <2>2 DEF ToSet
<1> HIDE DEF called
<1>4. Take(called, limit) \in Seq(T) /\ ToSet(Take(called, limit)) \subseteq ToSet(eligible)
  BY <1>3, TakeHolds
<1>5. IdsOf(Take(called, limit)) \subseteq IdsOf(eligible)
  <2>1. IdsOf(eligible) = {c.id : c \in ToSet(eligible)}
    BY <1>2, IdsOfHolds
  <2>2. IdsOf(Take(called, limit)) = {c.id : c \in ToSet(Take(called, limit))}
    BY <1>4, IdsOfHolds
  <2> QED BY <1>4, <2>1, <2>2
<1> QED BY <1>1, <1>5 DEF eligible

\* The image of a finite set, and the union over one.
LEMMA FiniteImage ==
  ASSUME NEW S, IsFiniteSet(S), NEW f
  PROVE  IsFiniteSet({f[x] : x \in S})
<1> DEFINE T == {f[x] : x \in S}
           g == [x \in S |-> f[x]]
<1>1. g \in Surjection(S, T)
  BY DEF Surjection
<1> HIDE DEF g
<1> QED BY <1>1, FS_Surjection

LEMMA FiniteUnion ==
  ASSUME NEW S, IsFiniteSet(S), NEW f, \A x \in S : IsFiniteSet(f[x])
  PROVE  IsFiniteSet(UNION {f[x] : x \in S})
<1> DEFINE T == {f[x] : x \in S}
<1>1. IsFiniteSet(T) /\ \A U \in T : IsFiniteSet(U)
  BY FiniteImage
<1> HIDE DEF T
<1>2. IsFiniteSet(UNION T)
  BY <1>1, FS_UNION
<1> QED BY <1>2 DEF T

LEMMA FiniteRange ==
  ASSUME NEW T, NEW s \in Seq(T)
  PROVE  IsFiniteSet(ToSet(s)) /\ IsFiniteSet(DOMAIN s)
<1>1. DOMAIN s = 1 .. Len(s) /\ Len(s) \in Nat
  OBVIOUS
<1>2. IsFiniteSet(DOMAIN s)
  BY <1>1, FS_Interval
<1> QED BY <1>2, FiniteImage DEF ToSet

\* A graph of finitely many clauses has finitely many edges.
LEMMA FewEdges ==
  /\ IsFiniteSet({})
  /\ \A x : IsFiniteSet({x})
  /\ \A S, T : IsFiniteSet(S) /\ IsFiniteSet(T) => IsFiniteSet(S \cup T)
<1>1. IsFiniteSet({}) /\ \A x : IsFiniteSet({x})
  BY FS_EmptySet, FS_Singleton
<1>2. ASSUME NEW S, NEW T, IsFiniteSet(S), IsFiniteSet(T) PROVE IsFiniteSet(S \cup T)
  BY <1>2, FS_Union
<1> QED BY <1>1, <1>2

LEMMA MetadataEdgesFinite ==
  ASSUME NEW c \in AllClauses
  PROVE  IsFiniteSet(MetadataEdges(c))
<1>1. /\ IsFiniteSet(c.occ) /\ IsFiniteSet(ToSet(c.ents))
  <2>1. IsFiniteSet(c.occ) /\ c.ents \in Seq(ToSet(c.ents))
    BY ChunksAssumption DEF ChunksAssumption
  <2> QED BY <2>1, FiniteRange
<1>2. IsFiniteSet(OccupancyEdges(c))
  <2> DEFINE f == [o \in c.occ |-> Edge(ClauseNode(c.id), <<"occupancy", o>>,
                                        "APPLIES_TO_OCCUPANCY", "")]
  <2>1. OccupancyEdges(c) = {f[o] : o \in c.occ}
    BY DEF OccupancyEdges
  <2> HIDE DEF f
  <2> QED BY <1>1, <2>1, FiniteImage
<1>3. \A raw, type, note : IsFiniteSet(ElementEdge(c, raw, type, note))
  BY FewEdges DEF ElementEdge
<1>4. IsFiniteSet(NumericEdges(c))
  <2> DEFINE prop(e) == IF map_property(e.property) = "none" THEN {}
                        ELSE {Edge(ClauseNode(c.id), <<"property", map_property(e.property)>>,
                                   "CONSTRAINS_PROPERTY", e.property)}
             edges(e) == ElementEdge(c, e.object, "GOVERNS", "") \cup prop(e)
             f == [e \in ToSet(c.ents) |-> edges(e)]
  <2>1. NumericEdges(c) = UNION {f[e] : e \in ToSet(c.ents)}
    BY DEF NumericEdges
  <2>2. \A e \in ToSet(c.ents) : IsFiniteSet(f[e])
    <3>1. \A e : IsFiniteSet(prop(e))
      BY FewEdges
    <3> HIDE DEF prop
    <3>2. \A e : IsFiniteSet(edges(e))
      BY <1>3, <3>1, FewEdges
    <3> HIDE DEF edges
    <3> QED BY <3>2
  <2> HIDE DEF f
  <2> QED BY <1>1, <2>1, <2>2, FiniteUnion
<1>5. IsFiniteSet(SpatialEdges(c))
  <2> DEFINE edges(e) == ElementEdge(c, e.subject, "GOVERNS", "")
                           \cup ElementEdge(c, e.object, "RELATES", e.relation)
             f == [e \in ToSet(c.ents) |-> edges(e)]
  <2>1. SpatialEdges(c) = UNION {f[e] : e \in ToSet(c.ents)}
    BY DEF SpatialEdges
  <2>2. \A e \in ToSet(c.ents) : IsFiniteSet(f[e])
    <3>1. \A e : IsFiniteSet(edges(e))
      BY <1>3, FewEdges
    <3> HIDE DEF edges
    <3> QED BY <3>1
  <2> HIDE DEF f
  <2> QED BY <1>1, <2>1, <2>2, FiniteUnion
<1>6. IsFiniteSet(DefinitionEdges(c))
  BY FewEdges DEF DefinitionEdges
<1> DEFINE rest == CASE c.rule = "numeric"    -> NumericEdges(c)
                     [] c.rule = "spatial"    -> SpatialEdges(c)
                     [] c.rule = "definition" -> DefinitionEdges(c)
                     [] OTHER -> {}
<1>7. IsFiniteSet(rest)
  BY <1>4, <1>5, <1>6, FewEdges
<1>8. MetadataEdges(c) = OccupancyEdges(c) \cup rest
  BY DEF MetadataEdges
<1> HIDE DEF rest
<1> QED BY <1>2, <1>7, <1>8, FewEdges

LEMMA ExceptionEdgesFinite ==
  ASSUME NEW c \in AllClauses, NEW ids, IsFiniteSet(ids)
  PROVE  IsFiniteSet(ExceptionEdges(c, ids))
<1> DEFINE manual == {m \in ManualLinks : m.exception = c.id}
           cited == (meta_refs(c) \cup parse_article_refs(c)) \ {m.cited : m \in manual}
           found(r) == resolve_reference(r, ids, c.id)
           link(base, method) ==
             Edge(ClauseNode(base), ClauseNode(c.id), "HAS_EXCEPTION", method)
           hand == {x \in manual : x.base \in ids}
           f == [m \in hand |-> link(m.base, "manual")]
           edges(r) == {link(b, found(r).method) : b \in found(r).bases}
           g == [r \in cited |-> edges(r)]
<1>1. ExceptionEdges(c, ids) = {f[m] : m \in hand} \cup UNION {g[r] : r \in cited}
  <2>1. ExceptionEdges(c, ids)
          = {link(m.base, "manual") : m \in hand} \cup UNION {edges(r) : r \in cited}
    BY DEF ExceptionEdges
  <2>2. {link(m.base, "manual") : m \in hand} = {f[m] : m \in hand}
    OBVIOUS
  <2> HIDE DEF edges
  <2>3. UNION {edges(r) : r \in cited} = UNION {g[r] : r \in cited}
    OBVIOUS
  <2> QED BY <2>1, <2>2, <2>3
<1>2. IsFiniteSet(hand)
  BY ManualLinksAssumption, FS_Subset DEF ManualLinksAssumption
<1>3. IsFiniteSet(cited)
  <2> DEFINE applies == [e \in ToSet(c.ents) |-> e.applies]
             meant == {applies[e] : e \in ToSet(c.ents)}
  <2>1. IsFiniteSet(ToSet(c.cites)) /\ IsFiniteSet(ToSet(c.ents))
    BY ChunksAssumption, FiniteRange DEF ChunksAssumption
  <2>2. cited \in SUBSET (meant \cup ToSet(c.cites))
    BY DEF meta_refs, parse_article_refs
  <2> HIDE DEF cited, applies
  <2>3. IsFiniteSet(meant)
    BY <2>1, FiniteImage
  <2> HIDE DEF meant
  <2>4. IsFiniteSet(meant \cup ToSet(c.cites))
    BY <2>1, <2>3, FewEdges
  <2> QED BY <2>2, <2>4, FS_Subset
<1>4. \A r : IsFiniteSet(found(r).bases)
  <2> SUFFICES ASSUME NEW r PROVE IsFiniteSet(resolve_reference(r, ids, c.id).bases)
      OBVIOUS
  <2> DEFINE others == ids \ {c.id}
             rev == ReverseSegments(r)
             family == {i \in others : InSection(i, rev)}
  <2>1. IsFiniteSet(family)
    <3>1. family \in SUBSET ids
      OBVIOUS
    <3> HIDE DEF family
    <3> QED BY <3>1, FS_Subset
  <2>2. \/ \E x : resolve_reference(r, ids, c.id).bases = {x}
        \/ resolve_reference(r, ids, c.id).bases = family
        \/ resolve_reference(r, ids, c.id).bases = {}
    <3> DEFINE inSec(i) == InSection(i, rev)
               parent == [core |-> Front(r.core), sfx |-> ""]
               prev == ReverseSegments(parent)
    <3> HIDE DEF rev, parent, prev
    <3> QED BY DEF resolve_reference, rev, parent, prev
  <2> HIDE DEF family
  <2> QED BY <2>1, <2>2, FewEdges
<1> HIDE DEF found
<1>5. \A r \in cited : IsFiniteSet(g[r])
  <2> SUFFICES ASSUME NEW r \in cited PROVE IsFiniteSet(edges(r))
      OBVIOUS
  <2> DEFINE h == [b \in found(r).bases |-> link(b, found(r).method)]
  <2>1. edges(r) = {h[b] : b \in found(r).bases}
    OBVIOUS
  <2>2. IsFiniteSet({h[b] : b \in found(r).bases})
    <3> HIDE DEF h
    <3> QED BY <1>4, FiniteImage
  <2> QED BY <2>1, <2>2
<1> HIDE DEF f, g, hand, cited
<1>6. IsFiniteSet({f[m] : m \in hand}) /\ IsFiniteSet(UNION {g[r] : r \in cited})
  BY <1>2, <1>3, <1>5, FiniteImage, FiniteUnion
<1> QED BY <1>1, <1>6, FewEdges

LEMMA UsesTermEdgesFinite ==
  ASSUME NEW kept \in Seq(AllClauses)
  PROVE  IsFiniteSet(UsesTermEdges(kept))
<1> DEFINE definers(term) == {i \in DOMAIN kept : kept[i].rule = "definition"
                                              /\ extract_term(kept[i]) = term}
           defs == {j \in DOMAIN kept : kept[j].rule = "definition"}
           e == [i \in DOMAIN kept |-> extract_term(kept[i])]
           terms == {extract_term(kept[i]) : i \in defs} \ {"none"}
           definer(term) == CHOOSE i \in definers(term) : \A j \in definers(term) : i <= j
           P == {q \in terms \X DOMAIN kept :
                   q[1] \in kept[q[2]].words /\ q[2] # definer(q[1])}
           f == [p \in P |-> Edge(ClauseNode(kept[p[2]].id), <<"term", p[1]>>, "USES_TERM", "")]
<1>1. UsesTermEdges(kept) = {f[p] : p \in P}
  BY DEF UsesTermEdges
<1>2. IsFiniteSet(DOMAIN kept)
  BY FiniteRange
<1>3. IsFiniteSet(terms)
  <2>1. IsFiniteSet({e[i] : i \in DOMAIN kept})
    <3> HIDE DEF e
    <3> QED BY <1>2, FiniteImage
  <2>2. terms \in SUBSET {e[i] : i \in DOMAIN kept}
    OBVIOUS
  <2> HIDE DEF terms
  <2> QED BY <2>1, <2>2, FS_Subset
<1> HIDE DEF terms, definer, f
<1>4. IsFiniteSet(terms \X DOMAIN kept)
  BY <1>2, <1>3, FS_Product
<1>5. P \in SUBSET (terms \X DOMAIN kept)
  OBVIOUS
<1> HIDE DEF P
<1>6. IsFiniteSet(P)
  BY <1>4, <1>5, FS_Subset
<1> QED BY <1>1, <1>6, FiniteImage

LEMMA GraphHolds ==
  ASSUME NEW clauses \in Seq(AllClauses)
  PROVE  /\ build_graph(clauses).clauses \in Seq(ArticleIds)
         /\ IsFiniteSet(build_graph(clauses).edges)
<1> DEFINE kept == Ingestable(clauses)
           ids == {kept[i].id : i \in DOMAIN kept}
           exceptions == {i \in DOMAIN kept : kept[i].rule = "exception"}
           f == [i \in DOMAIN kept |-> MetadataEdges(kept[i])]
           g == [i \in exceptions |-> ExceptionEdges(kept[i], ids)]
           names == [i \in DOMAIN kept |-> kept[i].id]
           meta == UNION {f[i] : i \in DOMAIN kept}
           exc == UNION {g[i] : i \in exceptions}
<1>1. /\ build_graph(clauses).clauses = names
      /\ build_graph(clauses).edges = meta \cup exc \cup UsesTermEdges(kept)
  BY DEF build_graph
<1>2. kept \in Seq(AllClauses)
  BY IngestableHolds
<1> HIDE DEF kept
<1>3. names \in Seq(ArticleIds)
  <2>1. \A i \in DOMAIN kept : kept[i].id \in ArticleIds
    BY <1>2, ChunksAssumption DEF ChunksAssumption
  <2> QED BY <1>2, <2>1
<1>4. IsFiniteSet(ids) /\ IsFiniteSet(DOMAIN kept) /\ IsFiniteSet(exceptions)
  <2>1. IsFiniteSet(DOMAIN kept)
    BY <1>2, FiniteRange
  <2>2. ids = {names[i] : i \in DOMAIN kept}
    OBVIOUS
  <2>3. IsFiniteSet(ids)
    <3> HIDE DEF names, ids
    <3> QED BY <2>1, <2>2, FiniteImage
  <2> QED BY <2>1, <2>3, FS_Subset
<1>5. \A i \in DOMAIN kept : kept[i] \in AllClauses
  BY <1>2
<1> HIDE DEF ids, names
<1>6. IsFiniteSet(meta)
  <2>1. \A i \in DOMAIN kept : IsFiniteSet(f[i])
    BY <1>5, MetadataEdgesFinite
  <2> HIDE DEF f
  <2> QED BY <1>4, <2>1, FiniteUnion
<1>7. IsFiniteSet(exc)
  <2>1. \A i \in exceptions : IsFiniteSet(g[i])
    BY <1>4, <1>5, ExceptionEdgesFinite
  <2> HIDE DEF g
  <2> QED BY <1>4, <2>1, FiniteUnion
<1> HIDE DEF meta, exc
<1>8. IsFiniteSet(meta \cup exc \cup UsesTermEdges(kept))
  BY <1>2, <1>6, <1>7, UsesTermEdgesFinite, FewEdges
<1> QED BY <1>1, <1>3, <1>8

LEMMA PreferredType ==
  ASSUME PrepType
  PROVE  PreferredClauses \in Seq(AllClauses)
BY DEF PrepType, PreferredClauses, ContextFiles

LEMMA PrefixHolds ==
  ASSUME NEW T, NEW s \in Seq(T), NEW t \in Seq(T), IsPrefix(s, t)
  PROVE  ToSet(s) \subseteq ToSet(t)
<1>1. /\ Len(s) \in Nat /\ Len(t) \in Nat /\ Len(s) <= Len(t)
      /\ DOMAIN s = 1 .. Len(s) /\ DOMAIN t = 1 .. Len(t)
  BY DEF IsPrefix
<1>2. \A i \in 1 .. Len(s) : SubSeq(s, 1, Len(s))[i] = s[i] /\ SubSeq(t, 1, Len(s))[i] = t[i]
  BY <1>1
<1>3. \A i \in 1 .. Len(s) : s[i] = t[i] /\ i \in DOMAIN t
  BY <1>1, <1>2 DEF IsPrefix
<1> QED BY <1>1, <1>3 DEF ToSet

LEMMA EligibleGrows ==
  ASSUME NEW T, NEW s \in Seq(T), NEW t \in Seq(T), ToSet(s) \subseteq ToSet(t)
  PROVE  IdsOf(Ingestable(s)) \subseteq IdsOf(Ingestable(t))
<1>1. /\ Ingestable(s) \in Seq(T) /\ ToSet(Ingestable(s)) = {c \in ToSet(s) : c.skip = "none"}
      /\ Ingestable(t) \in Seq(T) /\ ToSet(Ingestable(t)) = {c \in ToSet(t) : c.skip = "none"}
  BY IngestableHolds
<1>2. /\ IdsOf(Ingestable(s)) = {c.id : c \in ToSet(Ingestable(s))}
      /\ IdsOf(Ingestable(t)) = {c.id : c \in ToSet(Ingestable(t))}
  BY <1>1, IdsOfHolds
<1> QED BY <1>1, <1>2

\* The classifier adds to what it has.
LEMMA ClassifierKeeps ==
  ASSUME PrepInv, ClassifyStart \/ ClassifyChunk \/ ChunkFails \/ ClassifierKilled
  PROVE  /\ PrepInv'
         /\ file'.state # "torn" => IsPrefix(file.clauses, file'.clauses)
         /\ contexts' = contexts
<1>0. /\ contexts' = contexts /\ rows' = rows /\ graph' = graph
      /\ Len(Chunks) \in Nat /\ Len(Chunks) >= 1
      /\ classifier.clauses \in Seq(AllClauses) /\ file.clauses \in Seq(AllClauses)
      /\ classifier.chunk \in 0 .. Len(Chunks) /\ classifier.runs \in Nat
  <2>1. Len(Chunks) \in Nat /\ Len(Chunks) >= 1
    BY ChunksAssumption DEF ChunksAssumption
  <2> QED BY <2>1 DEF PrepInv, PrepType, ClassifyStart, ClassifyChunk, ChunkFails, ClassifierKilled
<1>1. ASSUME file' = file PROVE IsPrefix(file.clauses, file'.clauses)
  BY <1>0, <1>1, PrefixOfItself
<1>2. NextChunk \in 0 .. Len(Chunks)
  BY <1>0 DEF NextChunk, Idle
<1>3. CASE ClassifyStart
  <2>1. /\ file' = file /\ file.state # "torn"
        /\ classifier' = [chunk |-> 1, clauses |-> file.clauses, runs |-> classifier.runs + 1]
    BY <1>3 DEF ClassifyStart
  <2>2. classifier' \in [chunk : 0 .. Len(Chunks), clauses : Seq(AllClauses), runs : Nat]
    BY <1>0, <2>1
  <2> QED BY <1>0, <1>1, <2>1, <2>2
          DEF PrepInv, PrepType, ClassifierFollowsFile, ContextsOfFile
<1>4. CASE ClassifyChunk
  <2> DEFINE all == Adopt(Chunks[classifier.chunk], classifier.clauses)
  <2>1. /\ file' = [state |-> "whole", clauses |-> all]
        /\ classifier' = [classifier EXCEPT !.chunk = NextChunk, !.clauses = all]
        /\ classifier.chunk # 0
    BY <1>4 DEF ClassifyChunk, Running, Idle
  <2>2. Chunks[classifier.chunk] \in Seq(AllClauses)
    BY <1>0, <2>1, ChunksAssumption DEF ChunksAssumption
  <2>3. all \in Seq(AllClauses) /\ IsPrefix(classifier.clauses, all)
        /\ ToSet(classifier.clauses) \subseteq ToSet(all)
    <3>1. all \in Seq(AllClauses) /\ IsPrefix(classifier.clauses, all)
      BY <1>0, <2>2, AdoptKeeps
    <3> QED BY <1>0, <3>1, PrefixHolds
  <2> HIDE DEF all
  <2>4. classifier.clauses = file.clauses /\ file.state # "torn"
    BY <1>4 DEF ClassifyChunk, PrepInv, ClassifierFollowsFile
  <2>5. classifier' \in [chunk : 0 .. Len(Chunks), clauses : Seq(AllClauses), runs : Nat]
    BY <1>0, <1>2, <2>1, <2>3 DEF PrepInv, PrepType
  <2>6. PrepType'
    BY <1>0, <2>1, <2>3, <2>5 DEF PrepInv, PrepType
  <2>7. ClassifierFollowsFile'
    BY <2>1, <2>5 DEF ClassifierFollowsFile, PrepInv, PrepType
  <2>8. IdsOf(Ingestable(file.clauses)) \subseteq IdsOf(Ingestable(all))
    BY <1>0, <2>3, <2>4, EligibleGrows
  <2>9. ContextsOfFile'
    BY <1>0, <2>1, <2>4, <2>8 DEF PrepInv, ContextsOfFile
  <2> QED BY <1>0, <2>1, <2>3, <2>4, <2>6, <2>7, <2>9 DEF PrepInv
<1>5. CASE ChunkFails
  <2>1. file' = file /\ classifier' = [classifier EXCEPT !.chunk = NextChunk]
        /\ classifier.chunk # Idle
    BY <1>5 DEF ChunkFails, Running
  <2>2. classifier' \in [chunk : 0 .. Len(Chunks), clauses : Seq(AllClauses), runs : Nat]
        /\ classifier'.clauses = classifier.clauses
    BY <1>2, <2>1 DEF PrepInv, PrepType
  <2>3. PrepType'
    BY <1>0, <2>1, <2>2 DEF PrepInv, PrepType
  <2> QED BY <1>0, <1>1, <2>1, <2>2, <2>3
          DEF PrepInv, ClassifierFollowsFile, ContextsOfFile, Running
<1>6. CASE ClassifierKilled
  <2>0. <<>> \in Seq(AllClauses)
    OBVIOUS
  <2>1. /\ classifier' = [classifier EXCEPT !.chunk = Idle, !.clauses = <<>>]
        /\ file' = file \/ file' = [state |-> "torn", clauses |-> <<>>]
    BY <1>6 DEF ClassifierKilled
  <2>2. /\ classifier' \in [chunk : 0 .. Len(Chunks), clauses : Seq(AllClauses), runs : Nat]
        /\ classifier'.chunk = Idle
    <3>1. classifier \in [chunk : 0 .. Len(Chunks), clauses : Seq(AllClauses), runs : Nat]
      BY DEF PrepInv, PrepType
    <3>2. Idle \in 0 .. Len(Chunks)
      BY <1>0 DEF Idle
    <3> QED BY <2>0, <2>1, <3>1, <3>2
  <2>3. file'.clauses \in Seq(AllClauses)
    <3>1. CASE file' = file
      BY <1>0, <3>1
    <3>2. CASE file' = [state |-> "torn", clauses |-> <<>>]
      BY <2>0, <3>2
    <3> QED BY <2>1, <3>1, <3>2
  <2>4. PrepType'
    BY <1>0, <2>2, <2>3 DEF PrepInv, PrepType
  <2> QED BY <1>0, <1>1, <2>1, <2>2, <2>4
          DEF PrepInv, ClassifierFollowsFile, ContextsOfFile, Running
<1> QED BY <1>3, <1>4, <1>5, <1>6

\* The other commands leave the clauses, and add to the contexts, or tear
\* their file.
LEMMA CommandsKeep ==
  ASSUME PrepInv, Contextualize \/ ContextualizerKilled \/ Ingest \/ BuildGraph
  PROVE  /\ PrepInv' /\ file' = file
         /\ contexts'.state # "torn" => contexts.ids \subseteq contexts'.ids
<1>1. file' = file /\ classifier' = classifier
  BY DEF Contextualize, ContextualizerKilled, Ingest, BuildGraph
<1>2. CASE Contextualize
  <2>1. PICK limit \in {1, Len(file.clauses)} : \E failed :
          contexts' = [state |-> "whole", clauses |-> file.clauses,
                       ids  |-> Contextualized(file.clauses, contexts.ids, limit, failed),
                       runs |-> contexts.runs + 1]
    BY <1>2 DEF Contextualize
  <2>2. PICK failed :
          contexts' = [state |-> "whole", clauses |-> file.clauses,
                       ids  |-> Contextualized(file.clauses, contexts.ids, limit, failed),
                       runs |-> contexts.runs + 1]
    BY <2>1
  <2>3. /\ file.clauses \in Seq(AllClauses) /\ limit \in Nat
        /\ contexts.ids \subseteq IdsOf(Ingestable(file.clauses))
    BY <1>2 DEF Contextualize, PrepInv, PrepType, ContextsOfFile
  <2>4. /\ contexts.ids \subseteq contexts'.ids
        /\ contexts'.ids \subseteq IdsOf(Ingestable(file.clauses))
    BY <2>2, <2>3, ContextualizedKeeps
  <2>5. rows' = rows /\ graph' = graph /\ contexts'.clauses = file.clauses
    BY <1>2, <2>2 DEF Contextualize
  <2>6. contexts' \in ContextFiles
    <3>1. Ingestable(file.clauses) \in Seq(AllClauses)
      BY <2>3, IngestableHolds
    <3>2. IdsOf(Ingestable(file.clauses)) \subseteq ArticleIds
      BY <3>1, ChunksAssumption DEF IdsOf, ChunksAssumption
    <3>3. contexts.runs + 1 \in Nat
      BY DEF PrepInv, PrepType, ContextFiles
    <3>4. Contextualized(file.clauses, contexts.ids, limit, failed) \subseteq ArticleIds
      BY <2>2, <2>4, <3>2
    <3> QED BY <2>2, <2>3, <3>3, <3>4 DEF ContextFiles
  <2>7. PrepType'
    BY <1>1, <2>3, <2>5, <2>6 DEF PrepInv, PrepType
  <2> QED BY <1>1, <2>4, <2>7 DEF PrepInv, ClassifierFollowsFile, ContextsOfFile, Running
<1>3. CASE Ingest
  <2>1. PICK scope \in Scopes, input \in Inputs :
          LET kept == Keep(input, LAMBDA c : InScope(c, scope))
              clause(id) == CHOOSE c \in ToSet(kept) : c.id = id
              row(id) == [id |-> id, part |-> clause(id).part, rule |-> clause(id).rule]
          IN rows' = [id \in IdsOf(kept) \cup DOMAIN rows |->
                        IF id \in IdsOf(kept) THEN row(id) ELSE rows[id]]
    BY <1>3 DEF Ingest
  <2> DEFINE K == {i \in DOMAIN input : InScope(input[i], scope)}
             kept == At(input, K)
             row(id) == [id |-> id, part |-> (CHOOSE c \in ToSet(kept) : c.id = id).part,
                         rule |-> (CHOOSE c \in ToSet(kept) : c.id = id).rule]
  <2>2. rows' = [id \in IdsOf(kept) \cup DOMAIN rows |->
                   IF id \in IdsOf(kept) THEN row(id) ELSE rows[id]]
    BY <2>1 DEF Keep
  <2>3. input \in Seq(AllClauses)
    BY PreferredType DEF PrepInv, PrepType, Inputs
  <2>4. kept \in Seq(AllClauses)
    <3>1. K \in SUBSET DOMAIN input
      OBVIOUS
    <3> HIDE DEF K
    <3> QED BY <2>3, <3>1, AtHolds
  <2> HIDE DEF kept
  <2>5. IdsOf(kept) \subseteq ArticleIds
    BY <2>4, ChunksAssumption DEF IdsOf, ChunksAssumption
  <2>6. \A id : row(id).id = id
    OBVIOUS
  <2> HIDE DEF row
  <2>7. DOMAIN rows' = IdsOf(kept) \cup DOMAIN rows
        /\ \A id \in DOMAIN rows' : rows'[id] = IF id \in IdsOf(kept) THEN row(id) ELSE rows[id]
    BY <2>2
  <2>8. DOMAIN rows' \subseteq ArticleIds /\ \A id \in DOMAIN rows' : rows'[id].id = id
    BY <2>5, <2>6, <2>7 DEF PrepInv, PrepType
  <2>9. contexts' = contexts /\ graph' = graph
    BY <1>3 DEF Ingest
  <2>10. PrepType'
    BY <1>1, <2>8, <2>9 DEF PrepInv, PrepType
  <2> QED BY <1>1, <2>9, <2>10 DEF PrepInv, ClassifierFollowsFile, ContextsOfFile, Running
<1>4. CASE BuildGraph
  <2>0. PICK input \in Inputs : graph' = build_graph(input)
    BY <1>4 DEF BuildGraph
  <2>1. contexts' = contexts /\ rows' = rows
    BY <1>4 DEF BuildGraph
  <2>2. graph'.clauses \in Seq(ArticleIds) /\ IsFiniteSet(graph'.edges)
    <3>1. input \in Seq(AllClauses)
      BY PreferredType DEF PrepInv, PrepType, Inputs
    <3> QED BY <2>0, <3>1, GraphHolds
  <2>3. PrepType'
    BY <1>1, <2>1, <2>2 DEF PrepInv, PrepType
  <2> QED BY <1>1, <2>1, <2>3 DEF PrepInv, ClassifierFollowsFile, ContextsOfFile, Running
<1>5. CASE ContextualizerKilled
  <2> DEFINE torn == [state |-> "torn", clauses |-> <<>>, ids |-> {}, runs |-> contexts.runs + 1]
  <2>1. contexts' = [contexts EXCEPT !.runs = @ + 1] \/ contexts' = torn
    BY <1>5 DEF ContextualizerKilled
  <2>2. rows' = rows /\ graph' = graph
    BY <1>5 DEF ContextualizerKilled
  <2>3. contexts \in ContextFiles
    BY DEF PrepInv, PrepType
  <2>4. CASE contexts' = [contexts EXCEPT !.runs = @ + 1]
    <3>1. /\ contexts'.ids = contexts.ids /\ contexts'.clauses = contexts.clauses
          /\ contexts' \in ContextFiles
      BY <2>3, <2>4 DEF ContextFiles
    <3>2. PrepType'
      BY <1>1, <2>2, <3>1 DEF PrepInv, PrepType
    <3> QED BY <1>1, <3>1, <3>2 DEF PrepInv, ClassifierFollowsFile, ContextsOfFile, Running
  <2>5. CASE contexts' = torn
    <3>1. <<>> \in Seq(AllClauses) /\ {} \in SUBSET ArticleIds /\ contexts.runs + 1 \in Nat
      BY <2>3 DEF ContextFiles
    <3>2. torn \in ContextFiles
      BY <3>1 DEF ContextFiles
    <3>3. contexts'.ids = {} /\ contexts'.state = "torn"
      BY <2>5
    <3> HIDE DEF torn
    <3>4. PrepType'
      BY <1>1, <2>2, <2>5, <3>2 DEF PrepInv, PrepType
    <3> QED BY <1>1, <3>3, <3>4 DEF PrepInv, ClassifierFollowsFile, ContextsOfFile, Running
  <2> QED BY <2>1, <2>4, <2>5
<1> QED BY <1>2, <1>3, <1>4, <1>5

\* Preparing the corpus keeps the invariant, and the work of earlier runs.
LEMMA PrepareKeeps ==
  ASSUME PrepInv, Prepare
  PROVE  /\ PrepInv'
         /\ file'.state # "torn" => IsPrefix(file.clauses, file'.clauses)
         /\ contexts'.state # "torn" => contexts.ids \subseteq contexts'.ids
<1>1. CASE ClassifyStart \/ ClassifyChunk \/ ChunkFails \/ ClassifierKilled
  BY <1>1, ClassifierKeeps
<1>2. CASE Contextualize \/ ContextualizerKilled \/ Ingest \/ BuildGraph
  <2>1. /\ PrepInv' /\ file' = file
        /\ contexts'.state # "torn" => contexts.ids \subseteq contexts'.ids
    BY <1>2, CommandsKeep
  <2>2. IsPrefix(file.clauses, file'.clauses)
    BY <2>1, PrefixOfItself DEF PrepInv, PrepType
  <2> QED BY <2>1, <2>2
<1> QED BY <1>1, <1>2 DEF Prepare

\* The jobs and the evaluations read the corpus and leave it as it is.
Corpus == <<file, classifier, contexts, rows, graph>>

LEMMA ServingLeavesCorpus ==
  ASSUME [Next]_vars, ~PrepareCorpus
  PROVE  UNCHANGED Corpus
<1>1. CASE Ask \/ AskQdrant \/ Forget \/ UNCHANGED vars
  BY <1>1 DEF Ask, AskQdrant, Forget, vars, prepVars, Corpus
<1>2. CASE \E t \in Threads : Step(t)
  <2>1. PICK t \in Threads : Step(t)
    BY <1>2
  <2>2. CASE StartJob(t) \/ Check(t) \/ Enter(t) \/ BuildLlm(t) \/ BuildRetriever(t)
    BY <2>2 DEF StartJob, Check, Enter, BuildLlm, BuildRetriever, prepVars, Corpus
  <2>3. CASE OwnRetriever(t) \/ LoadEmbedder(t) \/ PublishReranker(t) \/ FinishReranker(t)
    BY <2>3 DEF OwnRetriever, LoadEmbedder, PublishReranker, FinishReranker, prepVars, Corpus
  <2>4. CASE LoadFails(t) \/ NextClause(t) \/ RetrieveContext(t) \/ Advise(t)
    BY <2>4 DEF LoadFails, NextClause, RetrieveContext, Advise, prepVars, Corpus
  <2> QED BY <2>1, <2>2, <2>3, <2>4 DEF Step
<1> QED BY <1>1, <1>2 DEF Next

LEMMA CorpusSame ==
  ASSUME PrepInv, UNCHANGED Corpus
  PROVE  PrepInv'
BY DEF Corpus, PrepInv, PrepType, ClassifierFollowsFile, ContextsOfFile, Running

LEMMA PrepInvStarts ==
  ASSUME Init
  PROVE  PrepInv
<1>1. /\ file = [state |-> "absent", clauses |-> <<>>]
      /\ classifier = [chunk |-> Idle, clauses |-> <<>>, runs |-> 0]
      /\ contexts = [state |-> "absent", clauses |-> <<>>, ids |-> {}, runs |-> 0]
      /\ rows = <<>> /\ graph = NoGraph
  BY DEF Init, PrepInit
<1>2. Len(Chunks) \in Nat /\ <<>> \in Seq(AllClauses) /\ <<>> \in Seq(ArticleIds)
  BY ChunksAssumption DEF ChunksAssumption
<1>3. DOMAIN rows = {} /\ Idle \in 0 .. Len(Chunks)
  BY <1>1, <1>2 DEF Idle
<1>4. graph.clauses \in Seq(ArticleIds) /\ IsFiniteSet(graph.edges)
  BY <1>1, <1>2, FS_EmptySet DEF NoGraph
<1>5. contexts \in ContextFiles
  <2>1. {} \in SUBSET ArticleIds /\ 0 \in Nat
    OBVIOUS
  <2> QED BY <1>1, <1>2, <2>1 DEF ContextFiles
<1>6. PrepType
  BY <1>1, <1>2, <1>3, <1>4, <1>5 DEF PrepType
<1> QED BY <1>1, <1>6 DEF PrepInv, ClassifierFollowsFile, ContextsOfFile, Running, Idle

LEMMA PrepInvKept ==
  ASSUME PrepInv, [Next]_vars
  PROVE  PrepInv'
<1>1. CASE PrepareCorpus
  BY <1>1, PrepareKeeps DEF PrepareCorpus
<1>2. CASE ~PrepareCorpus
  BY <1>2, ServingLeavesCorpus, CorpusSame
<1> QED BY <1>1, <1>2

\* A command killed among its calls, a call without an answer or a limit takes
\* nothing from what earlier runs saved: as long as the clauses file can be read
\* it only grows at its end, and as long as the contextual file can be read no
\* run of the contextualizer drops a context.  Only a kill inside the write of a
\* file, which the code truncates first, loses what the file held.
THEOREM PreparationKeepsWork == Spec => WorkIsKept
<1>1. Init => PrepInv
  BY PrepInvStarts
<1>2. PrepInv /\ [Next]_vars => PrepInv'
  BY PrepInvKept
<1>3. PrepInv /\ [Next]_vars
        => [/\ file'.state # "torn" => IsPrefix(file.clauses, file'.clauses)
            /\ contexts'.state # "torn" => contexts.ids \subseteq contexts'.ids]_prepVars
  <2> SUFFICES ASSUME PrepInv, [Next]_vars
               PROVE  /\ file'.state # "torn" => IsPrefix(file.clauses, file'.clauses)
                      /\ contexts'.state # "torn" => contexts.ids \subseteq contexts'.ids
      OBVIOUS
  <2>1. CASE PrepareCorpus
    BY <2>1, PrepareKeeps DEF PrepareCorpus
  <2>2. CASE ~PrepareCorpus
    <3>1. file' = file /\ contexts' = contexts
      BY <2>2, ServingLeavesCorpus DEF Corpus
    <3>2. IsPrefix(file.clauses, file'.clauses)
      BY <3>1, PrefixOfItself DEF PrepInv, PrepType
    <3> QED BY <3>1, <3>2
  <2> QED BY <2>1, <2>2
<1> QED BY <1>1, <1>2, <1>3, PTL DEF Spec, WorkIsKept

(***************************************************************************)
(* Retrieval                                                               *)
(***************************************************************************)
LEMMA BeforeOrders ==
  /\ \A a \in ArticleIds : ~Before(a, a)
  /\ \A a, b, c \in ArticleIds : Before(a, b) /\ Before(b, c) => Before(a, c)
  /\ \A a, b \in ArticleIds : a # b => Before(a, b) \/ Before(b, a)
<1>1. /\ IdOrder \in Seq(ArticleIds) /\ DOMAIN IdOrder = 1 .. Len(IdOrder) /\ Len(IdOrder) \in Nat
      /\ \A i, j \in DOMAIN IdOrder : IdOrder[i] = IdOrder[j] => i = j
  BY IdOrderAssumption DEF IdOrderAssumption
<1>2. \A a \in ArticleIds : \E i \in DOMAIN IdOrder : IdOrder[i] = a
  BY DEF ArticleIds, ToSet
<1>3. \A i \in DOMAIN IdOrder : i \in Int
  BY <1>1
<1>4. \A a \in ArticleIds : ~Before(a, a)
  BY <1>1, <1>3 DEF Before
<1>5. ASSUME NEW a \in ArticleIds, NEW b \in ArticleIds, NEW c \in ArticleIds,
             Before(a, b), Before(b, c)
      PROVE  Before(a, c)
  <2>1. PICK i \in DOMAIN IdOrder, j \in DOMAIN IdOrder : IdOrder[i] = a /\ IdOrder[j] = b /\ i < j
    BY <1>5 DEF Before
  <2>2. PICK m \in DOMAIN IdOrder, n \in DOMAIN IdOrder : IdOrder[m] = b /\ IdOrder[n] = c /\ m < n
    BY <1>5 DEF Before
  <2>3. j = m /\ i < n
    BY <1>1, <1>3, <2>1, <2>2
  <2> QED BY <2>1, <2>2, <2>3 DEF Before
<1>6. ASSUME NEW a \in ArticleIds, NEW b \in ArticleIds, a # b
      PROVE  Before(a, b) \/ Before(b, a)
  <2>1. PICK i \in DOMAIN IdOrder, j \in DOMAIN IdOrder : IdOrder[i] = a /\ IdOrder[j] = b
    BY <1>2
  <2>2. i < j \/ j < i
    BY <1>3, <1>6, <2>1
  <2> QED BY <2>1, <2>2 DEF Before
<1> QED BY <1>4, <1>5, <1>6

\* A score, and the order of the ids where it ties, put things in one line.
ScoreOrder(S, score, key) ==
  {p \in S \X S : \/ score[p[1]] > score[p[2]]
                  \/ score[p[1]] = score[p[2]] /\ Before(key[p[1]], key[p[2]])}

LEMMA ScoreOrders ==
  ASSUME NEW S, NEW score, NEW key,
         \A a \in S : score[a] \in Int /\ key[a] \in ArticleIds,
         \A a, b \in S : key[a] = key[b] => a = b
  PROVE  Orders(ScoreOrder(S, score, key), S)
<1> DEFINE R == ScoreOrder(S, score, key)
<1>1. \A a, b \in S : <<a, b>> \in R <=> \/ score[a] > score[b]
                                         \/ score[a] = score[b] /\ Before(key[a], key[b])
  BY DEF ScoreOrder
<1> HIDE DEF R
<1>2. \A a \in S : <<a, a>> \notin R
  BY <1>1, BeforeOrders
<1>3. ASSUME NEW a \in S, NEW b \in S, NEW c \in S, <<a, b>> \in R, <<b, c>> \in R
      PROVE  <<a, c>> \in R
  <2>1. score[a] \in Int /\ score[b] \in Int /\ score[c] \in Int
    OBVIOUS
  <2>2. CASE score[a] > score[c]
    BY <1>1, <2>2
  <2>3. CASE ~(score[a] > score[c])
    <3>1. score[a] = score[b] /\ score[b] = score[c]
      BY <1>1, <1>3, <2>1, <2>3
    <3>2. Before(key[a], key[b]) /\ Before(key[b], key[c])
      BY <1>1, <1>3, <2>1, <3>1
    <3> QED BY <1>1, <3>1, <3>2, BeforeOrders
  <2> QED BY <2>2, <2>3
<1>4. ASSUME NEW a \in S, NEW b \in S, a # b PROVE <<a, b>> \in R \/ <<b, a>> \in R
  <2>1. score[a] > score[b] \/ score[b] > score[a] \/ score[a] = score[b]
    OBVIOUS
  <2>2. Before(key[a], key[b]) \/ Before(key[b], key[a])
    BY <1>4, BeforeOrders
  <2> QED BY <1>1, <2>1, <2>2
<1> QED BY <1>2, <1>3, <1>4 DEF Orders, R

LEMMA ListsEach ==
  ASSUME NEW S, NEW R, NEW s, Orders(R, S), Lists(s, S, R)
  PROVE  /\ ToSet(s) = S /\ DOMAIN s = 1 .. Len(s) /\ Len(s) \in Nat
         /\ \A m, n \in DOMAIN s : s[m] = s[n] => m = n
<1>1. DOMAIN s = 1 .. Len(s) /\ Len(s) \in Nat /\ s \in Seq(S)
  BY DEF Lists
<1>2. ToSet(s) = S
  BY <1>1 DEF Lists, ToSet
<1>3. ASSUME NEW m \in DOMAIN s, NEW n \in DOMAIN s, s[m] = s[n], m # n PROVE FALSE
  <2>1. (m < n \/ n < m) /\ s[m] \in S
    BY <1>1, <1>3
  <2>2. <<s[m], s[m]>> \in R
    BY <1>1, <1>3, <2>1 DEF Lists
  <2> QED BY <2>1, <2>2 DEF Orders
<1> QED BY <1>1, <1>2, <1>3

LEMMA FirstPlaceHolds ==
  ASSUME NEW T, NEW list \in Seq(T), NEW x, x \in ToSet(list)
  PROVE  FirstPlace(list, x) \in DOMAIN list /\ list[FirstPlace(list, x)] = x
<1> DEFINE K == {i \in DOMAIN list : list[i] = x}
<1>1. DOMAIN list = 1 .. Len(list) /\ Len(list) \in Nat
  OBVIOUS
<1>2. K \in SUBSET (1 .. Len(list)) /\ K # {}
  BY <1>1 DEF ToSet
<1>3. PICK i \in K : \A j \in K : i <= j
  BY <1>1, <1>2, FirstPosition
<1>4. \A j \in 1 .. i - 1 : list[j] # x
  <2> SUFFICES ASSUME NEW j \in 1 .. i - 1, list[j] = x PROVE FALSE
      OBVIOUS
  <2>1. i \in 1 .. Len(list)
    BY <1>1
  <2>2. j \in K /\ ~(i <= j)
    BY <1>1, <2>1
  <2> QED BY <1>3, <2>2
<1> QED BY <1>3, <1>4 DEF FirstPlace

LEMMA ContainsHolds ==
  ASSUME NEW T, NEW list \in Seq(T), NEW x
  PROVE  Contains(list, x) <=> x \in ToSet(list)
BY DEF Contains, ToSet

\* The fusion gives every id of the lists, and only those, a score.
LEMMA RrfHolds ==
  ASSUME NEW T, NEW lists \in Seq(Seq(T))
  PROVE  /\ DOMAIN rrf_fuse(lists) = UNION {ToSet(lists[i]) : i \in DOMAIN lists}
         /\ IsFiniteSet(DOMAIN rrf_fuse(lists))
         /\ \A id \in DOMAIN rrf_fuse(lists) : rrf_fuse(lists)[id] \in Int
<1> DEFINE ids == UNION {ToSet(lists[i]) : i \in DOMAIN lists}
           share(i, id) == IF i \in DOMAIN lists /\ Contains(lists[i], id)
                           THEN 100000000 \div (RrfK + FirstPlace(lists[i], id)) ELSE 0
           f == [i \in DOMAIN lists |-> ToSet(lists[i])]
<1>1. rrf_fuse(lists) = [id \in ids |-> share(1, id) + share(2, id) + share(3, id)]
  BY DEF rrf_fuse
<1>2. \A i \in DOMAIN lists : lists[i] \in Seq(T)
  OBVIOUS
<1>3. \A i, id : share(i, id) \in Int
  <2> SUFFICES ASSUME NEW i, NEW id, i \in DOMAIN lists, Contains(lists[i], id)
               PROVE  100000000 \div (RrfK + FirstPlace(lists[i], id)) \in Int
      OBVIOUS
  <2>1. FirstPlace(lists[i], id) \in DOMAIN lists[i]
    BY <1>2, FirstPlaceHolds, ContainsHolds
  <2>2. RrfK + FirstPlace(lists[i], id) \in Nat \ {0}
    BY <1>2, <2>1 DEF RrfK
  <2> QED BY <2>2
<1>4. IsFiniteSet(ids)
  <2>1. \A i \in DOMAIN lists : IsFiniteSet(f[i])
    BY <1>2, FiniteRange
  <2>2. IsFiniteSet(DOMAIN lists)
    BY FiniteRange
  <2>3. ids = UNION {f[i] : i \in DOMAIN lists}
    OBVIOUS
  <2> HIDE DEF f, ids
  <2>4. IsFiniteSet(UNION {f[i] : i \in DOMAIN lists})
    BY <2>1, <2>2, FiniteUnion
  <2> QED BY <2>3, <2>4
<1> HIDE DEF share, ids
<1> QED BY <1>1, <1>3, <1>4 DEF ids

LEMMA ByScoreHolds ==
  ASSUME NEW score, DOMAIN score \subseteq ArticleIds, IsFiniteSet(DOMAIN score),
         \A id \in DOMAIN score : score[id] \in Int
  PROVE  /\ ByScore(score) \in Seq(DOMAIN score)
         /\ ToSet(ByScore(score)) = DOMAIN score
         /\ \A m, n \in DOMAIN ByScore(score) : ByScore(score)[m] = ByScore(score)[n] => m = n
<1> DEFINE S == DOMAIN score
           key == [id \in S |-> id]
           R == ScoreOrder(S, score, key)
           s == ByScore(score)
<1>1. Orders(R, S)
  <2>1. \A a \in S : score[a] \in Int /\ key[a] \in ArticleIds
    OBVIOUS
  <2>2. \A a, b \in S : key[a] = key[b] => a = b
    OBVIOUS
  <2> HIDE DEF key
  <2> QED BY <2>1, <2>2, ScoreOrders
<1>2. R = {p \in S \X S : \/ score[p[1]] > score[p[2]]
                          \/ score[p[1]] = score[p[2]] /\ Before(p[1], p[2])}
  BY DEF ScoreOrder
<1>3. s = Ranked(S, R)
  BY <1>2 DEF ByScore, Sorted
<1> HIDE DEF R, s
<1>4. Lists(s, S, R)
  BY <1>1, <1>3, RankedLists
<1> QED BY <1>1, <1>4, ListsEach DEF Lists, s

\* A finite set that is ranked by a score is listed, best score first.
LEMMA RankedByScore ==
  ASSUME NEW S, IsFiniteSet(S), NEW score, NEW key,
         \A a \in S : score[a] \in Int /\ key[a] \in ArticleIds,
         \A a, b \in S : key[a] = key[b] => a = b,
         NEW s, s = Ranked(S, ScoreOrder(S, score, key))
  PROVE  /\ s \in Seq(S) /\ ToSet(s) = S /\ DOMAIN s = 1 .. Len(s) /\ Len(s) \in Nat
         /\ \A m, n \in DOMAIN s : s[m] = s[n] => m = n
         /\ \A m, n \in DOMAIN s : m < n => score[s[m]] >= score[s[n]]
<1> DEFINE R == ScoreOrder(S, score, key)
<1>1. \A a, b \in S : <<a, b>> \in R => score[a] >= score[b]
  BY DEF ScoreOrder
<1>2. Orders(R, S)
  BY ScoreOrders
<1> HIDE DEF R
<1>3. Lists(s, S, R)
  BY <1>2, RankedLists DEF R
<1>4. /\ ToSet(s) = S /\ DOMAIN s = 1 .. Len(s) /\ Len(s) \in Nat
      /\ \A m, n \in DOMAIN s : s[m] = s[n] => m = n
  BY <1>2, <1>3, ListsEach
<1>5. s \in Seq(S) /\ \A m, n \in DOMAIN s : m < n => <<s[m], s[n]>> \in R
  BY <1>3, <1>4 DEF Lists
<1>6. \A m \in DOMAIN s : s[m] \in S
  BY <1>5
<1> QED BY <1>1, <1>4, <1>5, <1>6

\* A hit with all its fields, and a table of rows under their ids.
IsHit(h) ==
  /\ h = [id |-> h.id, part |-> h.part, rule |-> h.rule, score |-> h.score, from |-> h.from]
  /\ h.id \in ArticleIds
IsTable(table) == DOMAIN table \subseteq ArticleIds /\ \A id \in DOMAIN table : table[id].id = id

\* What a leg may bring for a request.
TableHits(table, req) ==
  {Hit(table[p[1]], p[2]) : p \in {id \in DOMAIN table : Matches(table[id], req)} \X Int}

LEMMA TableHitHolds ==
  ASSUME NEW table, IsTable(table), NEW req
  PROVE  /\ \A id \in DOMAIN table : \A n \in Int :
              Matches(table[id], req) => Hit(table[id], n) \in TableHits(table, req)
         /\ \A h \in TableHits(table, req) :
              /\ IsHit(h) /\ h.id \in DOMAIN table /\ h.score \in Int /\ h.from = "vector"
              /\ Matches(table[h.id], req) /\ Matches(h, req)
              /\ h.part = table[h.id].part /\ h.rule = table[h.id].rule
         /\ \A h \in TableHits(table, req) : \A n \in Int :
              [h EXCEPT !.score = n] \in TableHits(table, req)
<1> DEFINE ids == {id \in DOMAIN table : Matches(table[id], req)}
           H == TableHits(table, req)
<1>1. \A id \in ids : \A n \in Int : Hit(table[id], n) \in H
  <2> SUFFICES ASSUME NEW id \in ids, NEW n \in Int PROVE Hit(table[id], n) \in H
      OBVIOUS
  <2>1. <<id, n>> \in ids \X Int
    OBVIOUS
  <2> QED BY <2>1 DEF TableHits
<1>2. \A h \in H : \E id \in ids : \E n \in Int : h = Hit(table[id], n)
  BY DEF TableHits
<1> HIDE DEF H
<1>3. \A id \in ids : \A n \in Int :
        /\ Hit(table[id], n) = [id |-> id, part |-> table[id].part, rule |-> table[id].rule,
                                score |-> n, from |-> "vector"]
        /\ id \in ArticleIds /\ id \in DOMAIN table /\ Matches(table[id], req)
  BY DEF Hit, IsTable
<1>4. ASSUME NEW h \in H
      PROVE  /\ IsHit(h) /\ h.id \in DOMAIN table /\ h.score \in Int /\ h.from = "vector"
             /\ Matches(table[h.id], req) /\ Matches(h, req)
             /\ h.part = table[h.id].part /\ h.rule = table[h.id].rule
             /\ \A n \in Int : [h EXCEPT !.score = n] \in H
  <2>1. PICK id \in ids, n \in Int : h = Hit(table[id], n)
    BY <1>2
  <2>2. h = [id |-> id, part |-> table[id].part, rule |-> table[id].rule,
             score |-> n, from |-> "vector"]
    BY <1>3, <2>1
  <2>3. /\ h.id = id /\ h.part = table[id].part /\ h.rule = table[id].rule
        /\ h.score = n /\ h.from = "vector"
    BY <2>2
  <2>4. \A m : [h EXCEPT !.score = m] = [id |-> id, part |-> table[id].part,
                 rule |-> table[id].rule, score |-> m, from |-> "vector"]
    BY <2>2
  <2>5. \A m \in Int : [h EXCEPT !.score = m] = Hit(table[id], m)
    BY <1>3, <2>4
  <2>6. IsHit(h)
    BY <1>3, <2>2, <2>3 DEF IsHit
  <2>7. Matches(h, req)
    BY <1>3, <2>3 DEF Matches
  <2> QED BY <1>1, <1>3, <2>3, <2>5, <2>6, <2>7
<1> QED BY <1>1, <1>4 DEF H

\* Neither leg brings what the request's filters do not admit.
LEMMA DenseHolds ==
  ASSUME NEW table, IsTable(table), NEW text \in DOMAIN Texts, NEW k \in Nat, NEW req
  PROVE  dense_retrieve(table, text, k, req) \in Seq(TableHits(table, req))
<1> DEFINE list == Texts[text].near
           K == {i \in DOMAIN list : list[i] \in DOMAIN table /\ Matches(table[list[i]], req)}
           near == At(list, K)
           hits == [i \in DOMAIN near |-> Hit(table[near[i]], 0)]
<1>1. dense_retrieve(table, text, k, req) = Take(hits, k)
  BY DEF dense_retrieve, Keep
<1>2. list \in Seq(ToSet(list)) /\ K \in SUBSET DOMAIN list
  BY TextsAssumption DEF TextsAssumption
<1>3. \A i \in K : list[i] \in DOMAIN table /\ Matches(table[list[i]], req)
  OBVIOUS
<1> HIDE DEF list, K
<1>4. near \in Seq(ToSet(list)) /\ ToSet(near) = {list[i] : i \in K}
  BY <1>2, AtHolds
<1> HIDE DEF near
<1>5. \A i \in DOMAIN near : near[i] \in DOMAIN table /\ Matches(table[near[i]], req)
  <2>1. \A i \in DOMAIN near : near[i] \in ToSet(near)
    BY DEF ToSet
  <2> QED BY <1>3, <1>4, <2>1
<1>6. \A i \in DOMAIN near : Hit(table[near[i]], 0) \in TableHits(table, req)
  BY <1>5, TableHitHolds
<1>7. hits \in Seq(TableHits(table, req))
  BY <1>4, <1>6
<1> HIDE DEF hits
<1> QED BY <1>1, <1>7, TakeHolds

LEMMA LexicalHolds ==
  ASSUME NEW table, IsTable(table), NEW text \in DOMAIN Texts, NEW k \in Nat, NEW req
  PROVE  \/ lexical_retrieve(table, text, k, req) = Raised
         \/ lexical_retrieve(table, text, k, req) \in Seq(TableHits(table, req))
<1> DEFINE shared(id) == Cardinality(Texts[text].words \cap Lexeme[id])
           found == {id \in DOMAIN table : shared(id) > 0 /\ Matches(table[id], req)}
           score == [id \in found |-> shared(id)]
           key == [id \in found |-> id]
           ranked == Ranked(found, ScoreOrder(found, score, key))
           hits == [i \in DOMAIN ranked |-> Hit(table[ranked[i]], shared(ranked[i]))]
<1>1. \A id : shared(id) \in Int
  <2> SUFFICES ASSUME NEW id PROVE shared(id) \in Int
      OBVIOUS
  <2>1. IsFiniteSet(Texts[text].words)
    BY TextsAssumption DEF TextsAssumption
  <2> DEFINE W == Texts[text].words \cap Lexeme[id]
  <2>2. IsFiniteSet(W)
    BY <2>1, FS_Subset
  <2> HIDE DEF W
  <2>3. Cardinality(W) \in Nat
    BY <2>2, FS_CardinalityType
  <2> QED BY <2>3 DEF W
<1> HIDE DEF shared
<1>2. IsFiniteSet(found)
  <2>1. IsFiniteSet(ArticleIds)
    BY IdOrderAssumption, FiniteRange DEF IdOrderAssumption, ArticleIds
  <2>2. found \in SUBSET ArticleIds
    BY DEF IsTable
  <2> HIDE DEF found
  <2> QED BY <2>1, <2>2, FS_Subset
<1>3. ScoreOrder(found, score, key)
        = {p \in found \X found : \/ shared(p[1]) > shared(p[2])
                                  \/ shared(p[1]) = shared(p[2]) /\ Before(p[1], p[2])}
  BY DEF ScoreOrder
<1>4. \/ lexical_retrieve(table, text, k, req) = Raised
      \/ lexical_retrieve(table, text, k, req) = Take(hits, k)
  BY <1>3 DEF lexical_retrieve, Sorted, shared
<1>5. \A a \in found : score[a] \in Int /\ key[a] \in ArticleIds
  BY <1>1 DEF IsTable
<1>6. \A a, b \in found : key[a] = key[b] => a = b
  OBVIOUS
<1>7. \A a \in found : a \in DOMAIN table /\ Matches(table[a], req)
  OBVIOUS
<1> HIDE DEF found, score, key, ranked
<1>8. ranked \in Seq(found)
  <2>1. ranked = Ranked(found, ScoreOrder(found, score, key))
    BY DEF ranked
  <2> QED BY <1>2, <1>5, <1>6, <2>1, RankedByScore
<1>9. \A i \in DOMAIN ranked : Hit(table[ranked[i]], shared(ranked[i])) \in TableHits(table, req)
  <2> SUFFICES ASSUME NEW i \in DOMAIN ranked
               PROVE  Hit(table[ranked[i]], shared(ranked[i])) \in TableHits(table, req)
      OBVIOUS
  <2>1. ranked[i] \in found
    BY <1>8
  <2> QED BY <1>1, <1>7, <2>1, TableHitHolds
<1>10. hits \in Seq(TableHits(table, req))
  BY <1>8, <1>9
<1> HIDE DEF hits
<1>11. Take(hits, k) \in Seq(TableHits(table, req))
  BY <1>10, TakeHolds
<1> QED BY <1>4, <1>11

\* The hits of a set: full records, of which a new score makes others.
IsHitSet(H) == \A h \in H : /\ IsHit(h) /\ h.score \in Int
                            /\ \A n \in Int : [h EXCEPT !.score = n] \in H
IdSet(hits) == {hits[i].id : i \in DOMAIN hits}

LEMMA HitIdsHold ==
  ASSUME NEW H, IsHitSet(H), NEW hits \in Seq(H)
  PROVE  /\ HitIds(hits) \in Seq(ArticleIds) /\ ToSet(HitIds(hits)) = IdSet(hits)
         /\ DOMAIN HitIds(hits) = DOMAIN hits
         /\ \A i \in DOMAIN hits : HitIds(hits)[i] = hits[i].id
<1>1. \A i \in DOMAIN hits : hits[i].id \in ArticleIds
  BY DEF IsHitSet, IsHit
<1>2. HitIds(hits) = [i \in DOMAIN hits |-> hits[i].id]
  BY DEF HitIds
<1>3. DOMAIN hits = 1 .. Len(hits) /\ Len(hits) \in Nat
  OBVIOUS
<1>4. HitIds(hits) \in Seq(ArticleIds)
  BY <1>1, <1>2, <1>3
<1> QED BY <1>2, <1>4 DEF ToSet, IdSet

LEMMA RepresentativeHolds ==
  ASSUME NEW H, IsHitSet(H), NEW lists \in Seq(Seq(H)), NEW i \in DOMAIN lists,
         NEW id \in IdSet(lists[i])
  PROVE  Representative(lists, id) \in H /\ Representative(lists, id).id = id
<1> DEFINE having == {k \in DOMAIN lists : Contains(HitIds(lists[k]), id)}
           first == CHOOSE k \in having : \A m \in having : k <= m
           list == lists[first]
<1>1. \A k \in DOMAIN lists : lists[k] \in Seq(H)
  OBVIOUS
<1>2. \A k \in DOMAIN lists : /\ HitIds(lists[k]) \in Seq(ArticleIds)
                              /\ ToSet(HitIds(lists[k])) = IdSet(lists[k])
                              /\ DOMAIN HitIds(lists[k]) = DOMAIN lists[k]
                              /\ \A m \in DOMAIN lists[k] : HitIds(lists[k])[m] = lists[k][m].id
  BY <1>1, HitIdsHold
<1>3. \A k \in DOMAIN lists : Contains(HitIds(lists[k]), id) <=> id \in IdSet(lists[k])
  BY <1>2, ContainsHolds
<1>4. having \in SUBSET (1 .. Len(lists)) /\ having # {} /\ Len(lists) \in Nat
  BY <1>3
<1>5. \E k \in having : \A m \in having : k <= m
  BY <1>4, FirstPosition
<1>6. first \in having
  BY <1>5
<1> HIDE DEF first
<1>7. first \in DOMAIN lists /\ id \in ToSet(HitIds(list))
  BY <1>2, <1>3, <1>6
<1> DEFINE ids == HitIds(list)
           place == FirstPlace(ids, id)
<1>8. ids \in Seq(ArticleIds) /\ id \in ToSet(ids)
  BY <1>2, <1>7
<1> HIDE DEF ids
<1>9. place \in DOMAIN ids /\ ids[place] = id
  BY <1>8, FirstPlaceHolds
<1>10. Representative(lists, id) = list[place]
  BY DEF Representative, first, ids
<1> HIDE DEF place
<1>11. place \in DOMAIN list /\ list[place].id = id
  BY <1>2, <1>7, <1>9 DEF ids
<1> QED BY <1>1, <1>7, <1>10, <1>11

\* Fusing brings each id of the lists once, and nothing else.
LEMMA FuseHolds ==
  ASSUME NEW H, IsHitSet(H), NEW lists \in Seq(Seq(H))
  PROVE  /\ Fuse(lists) \in Seq(H)
         /\ IdSet(Fuse(lists)) = UNION {IdSet(lists[i]) : i \in DOMAIN lists}
         /\ \A m, n \in DOMAIN Fuse(lists) : Fuse(lists)[m].id = Fuse(lists)[n].id => m = n
<1> DEFINE names == [i \in DOMAIN lists |-> HitIds(lists[i])]
           fused == rrf_fuse(names)
           order == ByScore(fused)
           hit(i) == [Representative(lists, order[i]) EXCEPT !.score = fused[order[i]]]
           f == [i \in DOMAIN order |-> hit(i)]
<1>1. Fuse(lists) = f
  BY DEF Fuse
<1>2. \A i \in DOMAIN lists : lists[i] \in Seq(H) /\ HitIds(lists[i]) \in Seq(ArticleIds)
                              /\ ToSet(HitIds(lists[i])) = IdSet(lists[i])
  <2>1. \A i \in DOMAIN lists : lists[i] \in Seq(H)
    OBVIOUS
  <2> QED BY <2>1, HitIdsHold
<1>3. names \in Seq(Seq(ArticleIds)) /\ DOMAIN names = DOMAIN lists
  <2>1. \A i \in DOMAIN lists : names[i] \in Seq(ArticleIds)
    BY <1>2
  <2>2. DOMAIN lists = 1 .. Len(lists) /\ Len(lists) \in Nat /\ DOMAIN names = DOMAIN lists
    OBVIOUS
  <2>3. names = [i \in DOMAIN lists |-> names[i]]
    OBVIOUS
  <2> HIDE DEF names
  <2> QED BY <2>1, <2>2, <2>3
<1>4. \A i \in DOMAIN lists : ToSet(names[i]) = IdSet(lists[i])
  BY <1>2
<1> HIDE DEF names
<1>5. /\ DOMAIN fused = UNION {ToSet(names[i]) : i \in DOMAIN names}
      /\ IsFiniteSet(DOMAIN fused) /\ \A id \in DOMAIN fused : fused[id] \in Int
  BY <1>3, RrfHolds
<1>6. DOMAIN fused = UNION {IdSet(lists[i]) : i \in DOMAIN lists}
  BY <1>3, <1>4, <1>5
<1>7. DOMAIN fused \subseteq ArticleIds
  <2>1. \A i \in DOMAIN lists : lists[i] \in Seq(H)
    OBVIOUS
  <2>2. \A i \in DOMAIN lists : \A k \in DOMAIN lists[i] : lists[i][k].id \in ArticleIds
    BY <2>1 DEF IsHitSet, IsHit
  <2> HIDE DEF fused
  <2> QED BY <1>6, <2>2 DEF IdSet
<1> HIDE DEF fused
<1>8. /\ order \in Seq(DOMAIN fused) /\ ToSet(order) = DOMAIN fused
      /\ \A m, n \in DOMAIN order : order[m] = order[n] => m = n
  BY <1>5, <1>7, ByScoreHolds
<1> HIDE DEF order
<1>9. \A i \in DOMAIN order : hit(i) \in H /\ hit(i).id = order[i]
  <2> SUFFICES ASSUME NEW i \in DOMAIN order PROVE hit(i) \in H /\ hit(i).id = order[i]
      OBVIOUS
  <2>1. order[i] \in DOMAIN fused /\ fused[order[i]] \in Int
    <3>1. \A m \in DOMAIN order : order[m] \in DOMAIN fused
      BY <1>8
    <3> HIDE DEF hit
    <3> QED BY <1>5, <3>1
  <2>2. PICK k \in DOMAIN lists : order[i] \in IdSet(lists[k])
    BY <1>6, <2>1
  <2> DEFINE h == Representative(lists, order[i])
  <2>3. h \in H /\ h.id = order[i]
    BY <2>2, RepresentativeHolds
  <2>4. hit(i) = [h EXCEPT !.score = fused[order[i]]]
    OBVIOUS
  <2> HIDE DEF h
  <2>5. [h EXCEPT !.score = fused[order[i]]] \in H
    BY <2>1, <2>3 DEF IsHitSet
  <2>6. [h EXCEPT !.score = fused[order[i]]].id = h.id
    BY <2>3 DEF IsHitSet, IsHit
  <2> QED BY <2>3, <2>4, <2>5, <2>6
<1> HIDE DEF hit
<1>10. f \in Seq(H) /\ DOMAIN f = DOMAIN order /\ \A i \in DOMAIN f : f[i].id = order[i]
  BY <1>8, <1>9
<1> HIDE DEF f
<1>11. IdSet(f) = ToSet(order)
  BY <1>10 DEF IdSet, ToSet
<1>12. \A m, n \in DOMAIN f : f[m].id = f[n].id => m = n
  BY <1>8, <1>10
<1> QED BY <1>1, <1>6, <1>8, <1>10, <1>11, <1>12

\* Reranking gives the candidates, with the scores of the text, best first.
Rescored(text, h) == [id |-> h.id, part |-> h.part, rule |-> h.rule,
                      score |-> Texts[text].score[h.id], from |-> h.from]

Rescoring(text, hits) == {Rescored(text, hits[i]) : i \in DOMAIN hits}

LEMMA NewScore ==
  ASSUME NEW h, IsHit(h), NEW x
  PROVE  [h EXCEPT !.score = x] = [id |-> h.id, part |-> h.part, rule |-> h.rule,
                                   score |-> x, from |-> h.from]
<1>1. h = [id |-> h.id, part |-> h.part, rule |-> h.rule, score |-> h.score, from |-> h.from]
  BY DEF IsHit
<1> QED BY <1>1

Tells(hits) ==
  \A i, j \in DOMAIN hits : hits[i].id = hits[j].id =>
    hits[i].part = hits[j].part /\ hits[i].rule = hits[j].rule /\ hits[i].from = hits[j].from

IsRanking(s, text, hits) ==
  /\ s \in Seq(Rescoring(text, hits)) /\ ToSet(s) = Rescoring(text, hits)
  /\ \A k \in Nat : Rerank(text, hits, k) = Take(s, k)
  /\ \A n \in DOMAIN s : s[1].score >= s[n].score
  /\ \A m, n \in DOMAIN s : s[m] = s[n] => m = n

LEMMA RerankHolds ==
  ASSUME NEW T, NEW hits \in Seq(T), \A i \in DOMAIN hits : IsHit(hits[i]), Tells(hits),
         NEW text \in DOMAIN Texts
  PROVE  \E s : IsRanking(s, text, hits)
<1> DEFINE scored == [i \in DOMAIN hits |->
                        [hits[i] EXCEPT !.score = Texts[text].score[hits[i].id]]]
           S == Rescoring(text, hits)
           score == [a \in S |-> a.score]
           key == [a \in S |-> a.id]
           s == Ranked(S, ScoreOrder(S, score, key))
<1>1. \A i \in DOMAIN hits : scored[i] = Rescored(text, hits[i])
  <2> SUFFICES ASSUME NEW i \in DOMAIN hits PROVE scored[i] = Rescored(text, hits[i])
      OBVIOUS
  <2> DEFINE h == hits[i]
             x == Texts[text].score[hits[i].id]
  <2>1. IsHit(h)
    OBVIOUS
  <2>2. scored[i] = [h EXCEPT !.score = x]
    OBVIOUS
  <2>3. Rescored(text, hits[i]) = [id |-> h.id, part |-> h.part, rule |-> h.rule,
                                   score |-> x, from |-> h.from]
    BY DEF Rescored
  <2> HIDE DEF h, x
  <2>4. [h EXCEPT !.score = x] = [id |-> h.id, part |-> h.part, rule |-> h.rule,
                                  score |-> x, from |-> h.from]
    BY <2>1, NewScore
  <2> QED BY <2>2, <2>3, <2>4
<1>2. ToSet(scored) = S
  BY <1>1 DEF ToSet, Rescoring
<1>3. IsFiniteSet(S)
  <2>1. DOMAIN scored = DOMAIN hits /\ IsFiniteSet(DOMAIN hits)
    BY FiniteRange
  <2>2. ToSet(scored) = {scored[i] : i \in DOMAIN hits}
    BY DEF ToSet
  <2> HIDE DEF scored, S
  <2>3. IsFiniteSet({scored[i] : i \in DOMAIN hits})
    BY <2>1, FiniteImage
  <2> QED BY <1>2, <2>2, <2>3
<1>4. \A i \in DOMAIN hits :
        /\ hits[i].id \in ArticleIds /\ Texts[text].score[hits[i].id] \in Int
  BY TextsAssumption DEF TextsAssumption, IsHit
<1>5. \A a \in S : score[a] \in Int /\ key[a] \in ArticleIds
  BY <1>4 DEF Rescored, Rescoring
<1>6. \A a, b \in S : key[a] = key[b] => a = b
  BY DEF Rescored, Rescoring, Tells
<1>7. ScoreOrder(S, score, key)
        = {p \in S \X S : \/ p[1].score > p[2].score
                          \/ p[1].score = p[2].score /\ Before(p[1].id, p[2].id)}
  BY DEF ScoreOrder
<1>8. Sorted(ToSet(scored), LAMBDA a, b : a.score > b.score
                                          \/ (a.score = b.score /\ Before(a.id, b.id))) = s
  BY <1>2, <1>7 DEF Sorted
<1>9. \A m \in Nat : Rerank(text, hits, m) = Take(s, m)
  BY <1>8 DEF Rerank
<1>10. \A a \in S : score[a] = a.score
  OBVIOUS
<1> HIDE DEF S, score, key
<1>11. /\ s \in Seq(S) /\ ToSet(s) = S /\ DOMAIN s = 1 .. Len(s) /\ Len(s) \in Nat
       /\ \A m, n \in DOMAIN s : s[m] = s[n] => m = n
       /\ \A m, n \in DOMAIN s : m < n => score[s[m]] >= score[s[n]]
  BY <1>3, <1>5, <1>6, RankedByScore
<1> HIDE DEF s
<1>12. \A n \in DOMAIN s : s[1].score >= s[n].score
  <2> SUFFICES ASSUME NEW n \in DOMAIN s PROVE s[1].score >= s[n].score
      OBVIOUS
  <2>1. 1 \in DOMAIN s /\ s[1] \in S /\ s[n] \in S /\ (n = 1 \/ 1 < n)
    BY <1>11
  <2>2. s[1].score \in Int
    BY <1>5, <1>10, <2>1
  <2> QED BY <1>10, <1>11, <2>1, <2>2
<1>13. IsRanking(s, text, hits)
  BY <1>9, <1>11, <1>12 DEF S, IsRanking
<1> QED BY <1>13

LEMMA TableHitsTell ==
  ASSUME NEW table, IsTable(table), NEW req
  PROVE  /\ IsHitSet(TableHits(table, req))
         /\ Raised \notin Seq(TableHits(table, req))
         /\ \A hits \in Seq(TableHits(table, req)) :
              Tells(hits) /\ \A i \in DOMAIN hits : IsHit(hits[i])
<1> DEFINE H == TableHits(table, req)
<1>1. \A h \in H : /\ IsHit(h) /\ h.from = "vector" /\ h.score \in Int
                   /\ h.part = table[h.id].part /\ h.rule = table[h.id].rule
                   /\ \A n \in Int : [h EXCEPT !.score = n] \in H
  BY TableHitHolds
<1> HIDE DEF H
<1>2. IsHitSet(H)
  BY <1>1 DEF IsHitSet
<1>3. ASSUME NEW hits \in Seq(H)
      PROVE  Tells(hits) /\ \A i \in DOMAIN hits : IsHit(hits[i])
  <2>1. \A i \in DOMAIN hits : hits[i] \in H
    OBVIOUS
  <2> QED BY <1>1, <2>1 DEF Tells
<1>4. Raised \notin Seq(H)
  <2> SUFFICES ASSUME Raised \in Seq(H) PROVE FALSE
      OBVIOUS
  <2>1. Raised[1].from = "raised" /\ 1 \in DOMAIN Raised
    BY DEF Raised, Outcome
  <2>2. \A i \in DOMAIN Raised : Raised[i] \in H
    OBVIOUS
  <2>3. Raised[1].from = "vector"
    BY <1>1, <2>1, <2>2
  <2> QED BY <2>1, <2>3
<1> QED BY <1>2, <1>3, <1>4 DEF H

\* The candidates of one text.
LEMMA CandidatesHold ==
  ASSUME NEW table, IsTable(table), NEW text \in DOMAIN Texts, NEW req
  PROVE  \/ FusedCandidates(table, text, req) = Raised
         \/ FusedCandidates(table, text, req) \in Seq(TableHits(table, req))
<1> DEFINE H == TableHits(table, req)
           dense == dense_retrieve(table, text, CandidateK, req)
           lexical == lexical_retrieve(table, text, CandidateK, req)
           both == <<dense, lexical>>
<1>1. CandidateK \in Nat
  BY DepthsAssumption DEF DepthsAssumption
<1>2. dense \in Seq(H) /\ (lexical = Raised \/ lexical \in Seq(H))
  BY <1>1, DenseHolds, LexicalHolds
<1>3. FusedCandidates(table, text, req)
        = IF lexical = Raised THEN Raised ELSE Take(Fuse(both), CandidateK)
  BY DEF FusedCandidates, FuseLegs, Failed
<1>4. IsHitSet(H)
  BY TableHitsTell
<1> HIDE DEF H, dense, lexical
<1>5. CASE lexical \in Seq(H)
  <2>1. both \in Seq(Seq(H))
    BY <1>2, <1>5
  <2> HIDE DEF both
  <2>2. Fuse(both) \in Seq(H)
    BY <1>4, <2>1, FuseHolds
  <2>3. Take(Fuse(both), CandidateK) \in Seq(H)
    BY <1>1, <2>2, TakeHolds
  <2> QED BY <1>3, <2>3 DEF H
<1> QED BY <1>2, <1>3, <1>5

\* A result that starts with the best of the ids, for the text it is ranked by.
Ranks(text, hits, ids) ==
  /\ \A i \in DOMAIN hits : hits[i].score = Texts[text].score[hits[i].id]
  /\ \A id \in ids : hits # <<>> /\ hits[1].score >= Texts[text].score[id]

\* Reranked candidates are the hits of the table still.
LEMMA RerankTable ==
  ASSUME NEW table, IsTable(table), NEW req, NEW hits \in Seq(TableHits(table, req)),
         NEW text \in DOMAIN Texts, NEW k \in Nat \ {0}
  PROVE  /\ Rerank(text, hits, k) \in Seq(TableHits(table, req))
         /\ IdSet(Rerank(text, hits, k)) \subseteq IdSet(hits)
         /\ Ranks(text, Rerank(text, hits, k), IdSet(hits))
         /\ Len(Rerank(text, hits, k)) <= k
         /\ \A m \in Nat : m <= k => Take(Rerank(text, hits, k), m) = Rerank(text, hits, m)
<1> DEFINE H == TableHits(table, req)
           S == Rescoring(text, hits)
<1>1. IsHitSet(H) /\ Tells(hits) /\ \A i \in DOMAIN hits : IsHit(hits[i])
  BY TableHitsTell
<1>2. hits \in Seq(H) /\ \A i \in DOMAIN hits : hits[i] \in H
  OBVIOUS
<1>3. PICK s : IsRanking(s, text, hits)
  <2> HIDE DEF H
  <2> QED BY <1>1, <1>2, RerankHolds
<1>0. /\ s \in Seq(S) /\ ToSet(s) = S
      /\ \A m \in Nat : Rerank(text, hits, m) = Take(s, m)
      /\ \A n \in DOMAIN s : s[1].score >= s[n].score
  BY <1>3 DEF IsRanking
<1>4. \A i \in DOMAIN hits :
        /\ Rescored(text, hits[i]) \in H
        /\ Rescored(text, hits[i]).id = hits[i].id
        /\ Rescored(text, hits[i]).score = Texts[text].score[hits[i].id]
  <2> SUFFICES ASSUME NEW i \in DOMAIN hits
               PROVE  /\ Rescored(text, hits[i]) \in H
                      /\ Rescored(text, hits[i]).id = hits[i].id
                      /\ Rescored(text, hits[i]).score = Texts[text].score[hits[i].id]
      OBVIOUS
  <2> DEFINE h == hits[i]
             x == Texts[text].score[h.id]
  <2>1. IsHit(h) /\ h \in H
    BY <1>1, <1>2
  <2>2. x \in Int
    BY <2>1, TextsAssumption DEF TextsAssumption, IsHit
  <2>3. Rescored(text, h) = [id |-> h.id, part |-> h.part, rule |-> h.rule,
                             score |-> x, from |-> h.from]
    BY DEF Rescored
  <2> HIDE DEF h, x
  <2>4. [h EXCEPT !.score = x] = [id |-> h.id, part |-> h.part, rule |-> h.rule,
                                  score |-> x, from |-> h.from]
    BY <2>1, NewScore
  <2>5. [h EXCEPT !.score = x] \in H
    BY <1>1, <2>1, <2>2 DEF IsHitSet
  <2>6. Rescored(text, h).id = h.id /\ Rescored(text, h).score = x
    BY <2>3
  <2>7. Rescored(text, h) \in H
    BY <2>3, <2>4, <2>5
  <2> QED BY <2>6, <2>7 DEF h, x
<1>5. S \subseteq H /\ \A a \in S : a.id \in IdSet(hits) /\ a.score = Texts[text].score[a.id]
  BY <1>4 DEF IdSet, Rescoring
<1>6. \A id \in IdSet(hits) : \E a \in S : a.score = Texts[text].score[id]
  BY <1>4 DEF IdSet, Rescoring
<1> HIDE DEF S, H
<1> DEFINE r == Take(s, k)
<1>7. /\ r \in Seq(S) /\ Len(r) = IF Len(s) < k THEN Len(s) ELSE k
      /\ \A i \in 1 .. Len(r) : r[i] = s[i]
  BY <1>0, TakeHolds
<1>8. Rerank(text, hits, k) = r
  BY <1>0
<1>9. \A m \in Nat : m <= k => Take(r, m) = Rerank(text, hits, m)
  BY <1>0, TakeTwice
<1> HIDE DEF r
<1>10. \A i \in DOMAIN r : r[i] \in S
  BY <1>7
<1>11. r \in Seq(H) /\ IdSet(r) \subseteq IdSet(hits) /\ Len(r) <= k
  <2>1. r \in Seq(H)
    BY <1>5, <1>7
  <2>2. IdSet(r) \subseteq IdSet(hits)
    BY <1>5, <1>10 DEF IdSet
  <2>3. Len(r) <= k
    BY <1>0, <1>7
  <2> QED BY <2>1, <2>2, <2>3
<1>12. ASSUME NEW id \in IdSet(hits) PROVE r # <<>> /\ r[1].score >= Texts[text].score[id]
  <2>1. PICK a \in S : a.score = Texts[text].score[id]
    BY <1>6
  <2>2. PICK n \in DOMAIN s : s[n] = a
    BY <1>0 DEF ToSet
  <2>3. Len(s) >= 1 /\ Len(s) \in Nat
    BY <1>0, <2>2
  <2>4. Len(r) >= 1
    BY <1>7, <2>3
  <2>5. r # <<>> /\ r[1] = s[1]
    BY <1>7, <2>4
  <2> QED BY <1>0, <2>1, <2>2, <2>5
<1>13. Ranks(text, r, IdSet(hits))
  BY <1>5, <1>10, <1>12 DEF Ranks
<1> QED BY <1>8, <1>9, <1>11, <1>13 DEF H

\* Retrieving for some texts raises, or gives hits of the table that start with
\* the best of every text's candidates.
LEMMA RetrieveForAllHolds ==
  ASSUME NEW table, IsTable(table), NEW req, NEW texts \in Seq(DOMAIN Texts), texts # <<>>,
         NEW original \in DOMAIN Texts, NEW k \in Nat \ {0},
         RetrieveForAll(table, texts, original, k, req) # Raised
  PROVE  /\ RetrieveForAll(table, texts, original, k, req) \in Seq(TableHits(table, req))
         /\ \A i \in DOMAIN texts :
              /\ FusedCandidates(table, texts[i], req) \in Seq(TableHits(table, req))
              /\ Ranks(original, RetrieveForAll(table, texts, original, k, req),
                       IdSet(FusedCandidates(table, texts[i], req)))
<1> DEFINE H == TableHits(table, req)
           F(i) == FusedCandidates(table, texts[i], req)
           lists == [i \in DOMAIN texts |-> F(i)]
           all == IF Len(lists) = 1 THEN lists[1] ELSE Fuse(lists)
           r == RetrieveForAll(table, texts, original, k, req)
<1>1. r = IF \E i \in DOMAIN lists : lists[i] = Raised THEN Raised
          ELSE Rerank(original, all, k)
  BY DEF RetrieveForAll, RerankFused, Failed
<1>2. \A i \in DOMAIN texts : F(i) = Raised \/ F(i) \in Seq(H)
  BY CandidatesHold
<1>3. /\ DOMAIN texts = 1 .. Len(texts) /\ Len(texts) \in Nat /\ Len(texts) >= 1
      /\ DOMAIN lists = DOMAIN texts /\ \A i \in DOMAIN texts : lists[i] = F(i)
  OBVIOUS
<1> HIDE DEF r, F, H
<1>4. r = Rerank(original, all, k) /\ \A i \in DOMAIN texts : lists[i] \in Seq(H)
  <2>1. r # Raised
    BY DEF r
  <2> HIDE DEF all
  <2> QED BY <1>1, <1>2, <1>3, <2>1
<1>5. lists \in Seq(Seq(H)) /\ Len(lists) = Len(texts)
  BY <1>3, <1>4
<1> HIDE DEF lists
<1>6. IsHitSet(H)
  BY TableHitsTell DEF H
<1>7. all \in Seq(H) /\ \A i \in DOMAIN texts : IdSet(lists[i]) \subseteq IdSet(all)
  <2>1. CASE Len(lists) = 1
    BY <1>3, <1>4, <1>5, <2>1
  <2>2. CASE Len(lists) # 1
    <3>1. /\ Fuse(lists) \in Seq(H)
          /\ IdSet(Fuse(lists)) = UNION {IdSet(lists[i]) : i \in DOMAIN lists}
      BY <1>5, <1>6, FuseHolds
    <3> QED BY <1>3, <2>2, <3>1
  <2> QED BY <2>1, <2>2
<1> HIDE DEF all
<1>8. r \in Seq(H) /\ Ranks(original, r, IdSet(all))
  BY <1>4, <1>7, RerankTable DEF H
<1>9. \A i \in DOMAIN texts : F(i) \in Seq(H) /\ Ranks(original, r, IdSet(F(i)))
  BY <1>3, <1>4, <1>7, <1>8 DEF Ranks
<1> QED BY <1>8, <1>9 DEF r, F, H

\* The plain retrieval: more of it is wanted, less of it is its beginning.
LEMMA HybridHolds ==
  ASSUME NEW table, IsTable(table), NEW req, NEW text \in DOMAIN Texts,
         NEW k \in Nat \ {0}, NEW m \in Nat \ {0}, k <= m,
         hybrid_retrieve(table, text, m, req) # Raised
  PROVE  /\ hybrid_retrieve(table, text, k, req) = Take(hybrid_retrieve(table, text, m, req), k)
         /\ IdSet(hybrid_retrieve(table, text, k, req))
              \subseteq IdSet(FusedCandidates(table, text, req))
         /\ Ranks(text, hybrid_retrieve(table, text, k, req),
                  IdSet(FusedCandidates(table, text, req)))
<1> DEFINE F == FusedCandidates(table, text, req)
           one == <<text>>
           lists == [i \in DOMAIN one |-> FusedCandidates(table, one[i], req)]
<1>1. DOMAIN lists = {1} /\ lists[1] = F /\ Len(lists) = 1
  OBVIOUS
<1>2. \A n : hybrid_retrieve(table, text, n, req)
        = IF lists[1] = Raised THEN Raised ELSE Rerank(text, lists[1], n)
  <2>1. \A n : hybrid_retrieve(table, text, n, req)
          = IF \E i \in DOMAIN lists : Failed(lists[i]) THEN Raised
            ELSE Rerank(text, IF Len(lists) = 1 THEN lists[1] ELSE Fuse(lists), n)
    BY DEF hybrid_retrieve, RetrieveForAll, RerankFused
  <2> HIDE DEF lists
  <2> QED BY <1>1, <2>1 DEF Failed
<1> HIDE DEF lists
<1>3. F \in Seq(TableHits(table, req)) /\ F # Raised
  BY <1>1, <1>2, CandidatesHold
<1> HIDE DEF F
<1>4. /\ hybrid_retrieve(table, text, k, req) = Rerank(text, F, k)
      /\ hybrid_retrieve(table, text, m, req) = Rerank(text, F, m)
  BY <1>1, <1>2, <1>3
<1>5. Take(Rerank(text, F, m), k) = Rerank(text, F, k)
  BY <1>3, RerankTable
<1>6. /\ IdSet(Rerank(text, F, k)) \subseteq IdSet(F)
      /\ Ranks(text, Rerank(text, F, k), IdSet(F))
  BY <1>3, RerankTable
<1> QED BY <1>4, <1>5, <1>6 DEF F

(***************************************************************************)
(* The transforms and the corrective loop                                  *)
(***************************************************************************)
Silent(reply) == reply.hyde = "" /\ reply.broader = "" /\ reply.variants = <<>>

LEMMA TransformsHold ==
  ASSUME NEW query \in DOMAIN Texts, NEW reply \in Replies
  PROVE  /\ hyde_transform(query, reply) \in DOMAIN Texts
         /\ Stepback(query, stepback_transform(query, reply)) \in Seq(DOMAIN Texts)
         /\ Stepback(query, stepback_transform(query, reply)) # <<>>
         /\ Stepback(query, stepback_transform(query, reply))[1] = query
         /\ multi_query_transform(query, reply) \in Seq(DOMAIN Texts)
         /\ multi_query_transform(query, reply) # <<>>
         /\ multi_query_transform(query, reply)[1] = query
<1>1. {reply.hyde, reply.broader} \subseteq DOMAIN Texts \cup {""}
      /\ reply.variants \in Seq(DOMAIN Texts \cup {""})
  BY RepliesAssumption DEF RepliesAssumption
<1>2. hyde_transform(query, reply) \in DOMAIN Texts
      /\ stepback_transform(query, reply) \in DOMAIN Texts
  BY <1>1 DEF hyde_transform, stepback_transform
<1>3. \A b \in DOMAIN Texts : Stepback(query, b) \in Seq(DOMAIN Texts)
                              /\ Stepback(query, b) # <<>> /\ Stepback(query, b)[1] = query
  <2> SUFFICES ASSUME NEW b \in DOMAIN Texts
               PROVE  Stepback(query, b) \in Seq(DOMAIN Texts)
                      /\ Stepback(query, b) # <<>> /\ Stepback(query, b)[1] = query
      OBVIOUS
  <2>1. CASE b = query
    <3>1. Stepback(query, b) = <<query>>
      BY <2>1 DEF Stepback
    <3> QED BY <3>1
  <2>2. CASE b # query
    <3>1. Stepback(query, b) = <<query, b>>
      BY <2>2 DEF Stepback
    <3> QED BY <3>1
  <2> QED BY <2>1, <2>2
<1> DEFINE T == DOMAIN Texts \cup {""}
           Q == DOMAIN Texts
           list == reply.variants
           K == {i \in DOMAIN list : list[i] \notin {query, ""}}
           other == At(list, K)
           fresh == FirstOfEach(other)
           more == Take(fresh, 2)
<1>4. multi_query_transform(query, reply) = <<query>> \o more
  BY DEF multi_query_transform, Keep
<1>14. \A t \in T : t # "" => t \in Q
  OBVIOUS
<1>5. list \in Seq(T) /\ K \in SUBSET DOMAIN list
  BY <1>1
<1>6. \A i \in K : list[i] # ""
  OBVIOUS
<1> HIDE DEF T, list, K
<1>7. \A i \in K : list[i] \in Q
  <2>1. \A i \in K : i \in DOMAIN list
    BY <1>5, Zenon
  <2>2. \A i \in DOMAIN list : list[i] \in T
    BY <1>5
  <2> QED BY <1>6, <1>14, <2>1, <2>2, Zenon
<1>8. other \in Seq(T) /\ ToSet(other) = {list[i] : i \in K}
  BY <1>5, AtHolds
<1> HIDE DEF Q, other
<1>9. other \in Seq(Q)
  <2>1. \A i \in DOMAIN other : other[i] \in ToSet(other)
    BY DEF ToSet
  <2>2. \A i \in DOMAIN other : other[i] \in Q
    BY <1>7, <1>8, <2>1
  <2> QED BY <1>8, <2>2
<1>10. fresh \in Seq(Q)
  BY <1>9, FirstOfEachHolds
<1> HIDE DEF fresh
<1>11. more \in Seq(Q)
  BY <1>10, TakeHolds
<1> HIDE DEF more
<1>12. query \in Q
  BY DEF Q
<1>13. /\ <<query>> \o more \in Seq(Q) /\ <<query>> \o more # <<>>
       /\ (<<query>> \o more)[1] = query
  BY <1>11, <1>12
<1> QED BY <1>2, <1>3, <1>4, <1>13 DEF Q

LEMMA NothingListed ==
  ASSUME NEW T, NEW s \in Seq(T), \A x \in T : x \notin ToSet(s)
  PROVE  Len(s) = 0
<1>1. Len(s) \in Nat /\ DOMAIN s = 1 .. Len(s) /\ \A i \in DOMAIN s : s[i] \in T
  OBVIOUS
<1>2. \A i \in DOMAIN s : s[i] \in ToSet(s)
  BY DEF ToSet
<1>3. 1 \notin DOMAIN s
  BY <1>1, <1>2
<1> QED BY <1>1, <1>3

\* A model that answers nothing leaves the query as it is.
LEMMA NoReplyHolds ==
  ASSUME NEW query \in DOMAIN Texts, NEW reply, Silent(reply)
  PROVE  /\ hyde_transform(query, reply) = query
         /\ Stepback(query, stepback_transform(query, reply)) = <<query>>
         /\ multi_query_transform(query, reply) = <<query>>
<1>1. /\ hyde_transform(query, reply) = query
      /\ Stepback(query, stepback_transform(query, reply)) = <<query>>
  BY DEF Silent, hyde_transform, stepback_transform, Stepback
<1> DEFINE list == reply.variants
           K == {i \in DOMAIN list : list[i] \notin {query, ""}}
           other == At(list, K)
           fresh == FirstOfEach(other)
<1>2. multi_query_transform(query, reply) = <<query>> \o Take(fresh, 2)
  BY DEF multi_query_transform, Keep
<1> DEFINE Q == DOMAIN Texts
           more == Take(fresh, 2)
<1>3. list \in Seq(Q) /\ K = {}
  <2>1. list = <<>>
    BY DEF Silent
  <2>2. <<>> \in Seq(Q) /\ DOMAIN <<>> = {}
    OBVIOUS
  <2>3. DOMAIN list = {}
    BY <2>1, <2>2
  <2>4. K = {}
    <3> HIDE DEF list
    <3> QED BY <2>3
  <2> QED BY <2>1, <2>2, <2>4
<1>4. query \in Q
  OBVIOUS
<1> HIDE DEF list, K, Q
<1>5. other \in Seq(Q) /\ ToSet(other) = {}
  <2>1. K \in SUBSET DOMAIN list
    BY <1>3
  <2>2. other \in Seq(Q) /\ ToSet(other) = {list[i] : i \in K}
    BY <1>3, <2>1, AtHolds
  <2> QED BY <1>3, <2>2
<1> HIDE DEF other
<1>6. fresh \in Seq(Q) /\ ToSet(fresh) = {}
  BY <1>5, FirstOfEachHolds
<1> HIDE DEF fresh
<1>7. more \in Seq(Q) /\ \A x \in Q : x \notin ToSet(more)
  BY <1>6, TakeHolds
<1> HIDE DEF more
<1>8. Len(more) = 0
  BY <1>7, NothingListed
<1>9. <<query>> \o more = <<query>>
  <2> DEFINE s == <<query>> \o more
  <2>0. <<query>> \in Seq(Q) /\ Len(<<query>>) = 1 /\ <<query>>[1] = query
    BY <1>4
  <2>1. s \in Seq(Q) /\ Len(s) = 1 /\ s[1] = query
    BY <1>7, <1>8, <2>0
  <2> HIDE DEF s
  <2>2. s = <<query>>
    BY <2>1
  <2> QED BY <2>2 DEF s
<1> QED BY <1>1, <1>2, <1>9 DEF more

LEMMA DispatchHolds ==
  ASSUME NEW table, IsTable(table), NEW req, NEW query \in DOMAIN Texts, NEW reply \in Replies,
         NEW k \in Nat \ {0}, NEW name \in {"hyde", "stepback", "multi_query"}
  PROVE  /\ Dispatch(name, table, query, k, req, reply) # Raised =>
              /\ Dispatch(name, table, query, k, req, reply) \in Seq(TableHits(table, req))
              /\ \/ name = "hyde"
                 \/ Ranks(query, Dispatch(name, table, query, k, req, reply),
                          IdSet(FusedCandidates(table, query, req)))
         /\ Silent(reply) => Dispatch(name, table, query, k, req, reply)
                               = hybrid_retrieve(table, query, k, req)
<1> DEFINE result == Dispatch(name, table, query, k, req, reply)
           H == TableHits(table, req)
           ids == IdSet(FusedCandidates(table, query, req))
           fake == hyde_transform(query, reply)
           back == Stepback(query, stepback_transform(query, reply))
           multi == multi_query_transform(query, reply)
<1>0. 1 \in DOMAIN back /\ 1 \in DOMAIN multi /\ 1 \in DOMAIN <<fake>>
      /\ <<fake>> \in Seq(DOMAIN Texts) /\ <<fake>> # <<>>
  <2>1. /\ fake \in DOMAIN Texts
        /\ back \in Seq(DOMAIN Texts) /\ back # <<>>
        /\ multi \in Seq(DOMAIN Texts) /\ multi # <<>>
    BY TransformsHold
  <2> HIDE DEF fake, back, multi
  <2>2. \A s \in Seq(DOMAIN Texts) : s # <<>> => 1 \in DOMAIN s
    OBVIOUS
  <2>3. <<fake>> \in Seq(DOMAIN Texts) /\ <<fake>> # <<>>
    BY <2>1
  <2>4. 1 \in DOMAIN back /\ 1 \in DOMAIN multi
    BY <2>1, <2>2
  <2> QED BY <2>3, <2>4
<1>1. CASE name = "hyde"
  <2>1. result = RetrieveForAll(table, <<fake>>, fake, k, req)
    BY <1>1 DEF Dispatch, hyde_retrieve, hybrid_retrieve
  <2>2. fake \in DOMAIN Texts /\ (Silent(reply) => fake = query)
    BY TransformsHold, NoReplyHolds
  <2> DEFINE texts == <<fake>>
  <2>3. texts \in Seq(DOMAIN Texts) /\ texts # <<>>
    BY <1>0
  <2> HIDE DEF fake, texts
  <2>4. RetrieveForAll(table, texts, fake, k, req) # Raised
          => RetrieveForAll(table, texts, fake, k, req) \in Seq(H)
    BY <2>2, <2>3, RetrieveForAllHolds
  <2>5. hybrid_retrieve(table, fake, k, req) = RetrieveForAll(table, texts, fake, k, req)
    BY DEF hybrid_retrieve, texts
  <2> QED BY <1>1, <2>1, <2>2, <2>4, <2>5 DEF texts
<1>2. CASE name = "stepback"
  <2>1. result = RetrieveForAll(table, back, query, k, req)
    BY <1>2 DEF Dispatch, stepback_retrieve
  <2>2. /\ back \in Seq(DOMAIN Texts) /\ back # <<>> /\ back[1] = query /\ 1 \in DOMAIN back
        /\ Silent(reply) => back = <<query>>
    BY <1>0, TransformsHold, NoReplyHolds
  <2> HIDE DEF back
  <2>3. RetrieveForAll(table, back, query, k, req) # Raised
          => /\ RetrieveForAll(table, back, query, k, req) \in Seq(H)
             /\ Ranks(query, RetrieveForAll(table, back, query, k, req), ids)
    BY <2>2, RetrieveForAllHolds
  <2>4. hybrid_retrieve(table, query, k, req) = RetrieveForAll(table, <<query>>, query, k, req)
    BY DEF hybrid_retrieve
  <2> QED BY <2>1, <2>2, <2>3, <2>4
<1>3. CASE name = "multi_query"
  <2>1. result = RetrieveForAll(table, multi, query, k, req)
    BY <1>3 DEF Dispatch, multi_query_retrieve
  <2>2. /\ multi \in Seq(DOMAIN Texts) /\ multi # <<>> /\ multi[1] = query /\ 1 \in DOMAIN multi
        /\ Silent(reply) => multi = <<query>>
    BY <1>0, TransformsHold, NoReplyHolds
  <2> HIDE DEF multi
  <2>3. RetrieveForAll(table, multi, query, k, req) # Raised
          => /\ RetrieveForAll(table, multi, query, k, req) \in Seq(H)
             /\ Ranks(query, RetrieveForAll(table, multi, query, k, req), ids)
    BY <2>2, RetrieveForAllHolds
  <2>4. hybrid_retrieve(table, query, k, req) = RetrieveForAll(table, <<query>>, query, k, req)
    BY DEF hybrid_retrieve
  <2> QED BY <2>1, <2>2, <2>3, <2>4
<1> QED BY <1>1, <1>2, <1>3

LEMMA RouteHolds ==
  ASSUME NEW query, NEW confidence
  PROVE  /\ route_query(query, confidence).primary \in {"none", "hyde", "multi_query"}
         /\ route_query(query, confidence).fallback \in {"none", "stepback", "multi_query", "hyde"}
<1>1. PICK p \in {"none", "hyde", "multi_query"}, f \in {"none", "stepback", "multi_query", "hyde"} :
        route_query(query, confidence) = Route(p, f)
  BY DEF route_query
<1>2. Route(p, f).primary = p /\ Route(p, f).fallback = f
  BY DEF Route
<1> QED BY <1>1, <1>2

\* What the loop answers is one of the results it judged, cut to length.
LEMMA CorrectedByHolds ==
  ASSUME NEW route, NEW initial, NEW first, NEW second, NEW k,
         CorrectedBy(route, initial, first, second, k).hits # Raised
  PROVE  /\ initial # Raised
         /\ \/ /\ CorrectedBy(route, initial, first, second, k).hits = Take(initial, k)
               /\ CorrectedBy(route, initial, first, second, k).tried
                    \in {<<>>, <<route.primary>>}
            \/ /\ route.primary # "none" /\ first # Raised
               /\ CorrectedBy(route, initial, first, second, k)
                    = [hits |-> Take(first, k), tried |-> <<route.primary>>]
            \/ /\ route.primary # "none" /\ route.fallback # "none" /\ second # Raised
               /\ CorrectedBy(route, initial, first, second, k)
                    = [hits |-> Take(second, k), tried |-> <<route.primary, route.fallback>>]
<1> DEFINE c == CorrectedBy(route, initial, first, second, k)
           given(hits, tried) ==
             [hits |-> IF hits = Raised THEN Raised ELSE Take(hits, k), tried |-> tried]
<1>1. c = IF initial = Raised THEN given(Raised, <<>>)
          ELSE IF route.primary = "none" THEN given(initial, <<>>)
          ELSE IF first = Raised THEN given(Raised, <<route.primary>>)
          ELSE IF evaluate_retrieval(first) # "LOW" THEN given(first, <<route.primary>>)
          ELSE IF route.fallback \notin {"none", route.primary}
               THEN given(second, <<route.primary, route.fallback>>)
          ELSE given(initial, <<route.primary>>)
  BY DEF CorrectedBy, Failed
<1>2. \A tried : given(Raised, tried).hits = Raised
  OBVIOUS
<1>3. \A hits, tried : hits # Raised =>
        /\ given(hits, tried) = [hits |-> Take(hits, k), tried |-> tried]
        /\ given(hits, tried).hits = Take(hits, k) /\ given(hits, tried).tried = tried
  OBVIOUS
<1> HIDE DEF given
<1>4. initial # Raised
  BY <1>1, <1>2
<1>5. CASE route.primary = "none"
  <2>1. c = given(initial, <<>>)
    BY <1>1, <1>4, <1>5
  <2> QED BY <1>3, <1>4, <2>1
<1>6. CASE route.primary # "none"
  <2>1. first # Raised
    BY <1>1, <1>2, <1>4, <1>6
  <2>2. CASE evaluate_retrieval(first) # "LOW"
    <3>1. c = given(first, <<route.primary>>)
      BY <1>1, <1>4, <1>6, <2>1, <2>2
    <3> QED BY <1>3, <1>4, <1>6, <2>1, <3>1
  <2>3. CASE evaluate_retrieval(first) = "LOW" /\ route.fallback \notin {"none", route.primary}
    <3>1. c = given(second, <<route.primary, route.fallback>>)
      BY <1>1, <1>4, <1>6, <2>1, <2>3
    <3>2. second # Raised
      BY <1>2, <3>1
    <3> QED BY <1>3, <1>4, <1>6, <2>3, <3>1, <3>2
  <2>4. CASE evaluate_retrieval(first) = "LOW" /\ route.fallback \in {"none", route.primary}
    <3>1. c = given(initial, <<route.primary>>)
      BY <1>1, <1>4, <1>6, <2>1, <2>4
    <3> QED BY <1>3, <1>4, <3>1
  <2> QED BY <2>2, <2>3, <2>4
<1> QED BY <1>5, <1>6

LEMMA RanksTake ==
  ASSUME NEW T, NEW hits \in Seq(T), NEW k \in Nat \ {0}, NEW text, NEW ids,
         Ranks(text, hits, ids)
  PROVE  Ranks(text, Take(hits, k), ids)
<1> DEFINE r == Take(hits, k)
<1>1. /\ r \in Seq(T) /\ Len(r) = IF Len(hits) < k THEN Len(hits) ELSE k
      /\ \A i \in 1 .. Len(r) : r[i] = hits[i]
  BY TakeHolds
<1> HIDE DEF r
<1>2. DOMAIN r = 1 .. Len(r) /\ DOMAIN hits = 1 .. Len(hits) /\ Len(r) <= Len(hits)
  BY <1>1
<1>3. \A i \in DOMAIN r : r[i] = hits[i] /\ i \in DOMAIN hits
  BY <1>1, <1>2
<1>4. hits # <<>> => r # <<>> /\ r[1] = hits[1]
  <2> SUFFICES ASSUME hits # <<>> PROVE r # <<>> /\ r[1] = hits[1]
      OBVIOUS
  <2>1. Len(hits) >= 1
    OBVIOUS
  <2>2. Len(r) >= 1
    BY <1>1, <2>1
  <2> QED BY <1>1, <2>2
<1>5. Ranks(text, r, ids)
  BY <1>3, <1>4 DEF Ranks
<1> QED BY <1>5 DEF r

\* The corrective loop gives hits of the table; without a reply it gives the
\* plain ones, and it ends with a hypothetical text or starts with the best of
\* the plain candidates.
LEMMA CorrectiveHolds ==
  ASSUME NEW table, IsTable(table), NEW req, req.query \in DOMAIN Texts, NEW reply \in Replies,
         NEW k \in Nat \ {0}, Corrective(table, req, k, reply).hits # Raised
  PROVE  /\ Corrective(table, req, k, reply).hits \in Seq(TableHits(table, req))
         /\ Silent(reply) => Corrective(table, req, k, reply).hits
                               = hybrid_retrieve(table, req.query, k, req)
         /\ hybrid_retrieve(table, req.query, AtLeast(k, EvalK), req) # Raised
         /\ \/ Corrective(table, req, k, reply).tried # <<>>
               /\ Last(Corrective(table, req, k, reply).tried) = "hyde"
            \/ Ranks(req.query, Corrective(table, req, k, reply).hits,
                     IdSet(FusedCandidates(table, req.query, req)))
<1> DEFINE query == req.query
           m == AtLeast(k, EvalK)
           initial == hybrid_retrieve(table, query, m, req)
           plain == hybrid_retrieve(table, query, k, req)
           route == route_query(query, IF Failed(initial) THEN "HIGH"
                                       ELSE evaluate_retrieval(initial))
           by(name) == Dispatch(name, table, query, m, req, reply)
           first == by(route.primary)
           second == by(route.fallback)
           c == Corrective(table, req, k, reply)
           H == TableHits(table, req)
           ids == IdSet(FusedCandidates(table, query, req))
           hyde == c.tried # <<>> /\ Last(c.tried) = "hyde"
           Names == {"hyde", "stepback", "multi_query"}
<1>1. c = CorrectedBy(route, initial, first, second, k)
  BY DEF Corrective, Routed, Corrected
<1>2. m \in Nat \ {0} /\ k <= m
  BY DepthsAssumption DEF DepthsAssumption, AtLeast
<1>3. /\ route.primary # "none" => route.primary \in Names
      /\ route.fallback # "none" => route.fallback \in Names
  BY RouteHolds
<1>4. \A name \in Names :
        /\ by(name) # Raised => /\ by(name) \in Seq(H)
                                /\ name = "hyde" \/ Ranks(query, by(name), ids)
        /\ Silent(reply) => by(name) = initial
  BY <1>2, DispatchHolds
<1>5. c.hits # Raised
  OBVIOUS
<1> HIDE DEF c, route, first, second, initial, m, H, ids, by
<1>6. /\ initial # Raised
      /\ \/ c.hits = Take(initial, k) /\ c.tried \in {<<>>, <<route.primary>>}
         \/ /\ route.primary # "none" /\ first # Raised
            /\ c = [hits |-> Take(first, k), tried |-> <<route.primary>>]
         \/ /\ route.primary # "none" /\ route.fallback # "none" /\ second # Raised
            /\ c = [hits |-> Take(second, k), tried |-> <<route.primary, route.fallback>>]
  BY <1>1, <1>5, CorrectedByHolds
<1>7. initial \in Seq(H) /\ Ranks(query, initial, ids)
  <2> DEFINE texts == <<query>>
  <2>1. texts \in Seq(DOMAIN Texts) /\ texts # <<>> /\ 1 \in DOMAIN texts /\ texts[1] = query
    OBVIOUS
  <2>2. initial = RetrieveForAll(table, texts, query, m, req)
    BY DEF initial, hybrid_retrieve
  <2> HIDE DEF texts, query
  <2>3. query \in DOMAIN Texts
    BY DEF query
  <2> QED BY <1>2, <1>6, <2>1, <2>2, <2>3, RetrieveForAllHolds DEF H, ids
<1>8. plain = Take(initial, k)
  BY <1>2, <1>6, HybridHolds DEF initial
<1>9. \A hits \in Seq(H) : /\ Take(hits, k) \in Seq(H)
                           /\ Ranks(query, hits, ids) => Ranks(query, Take(hits, k), ids)
  BY TakeHolds, RanksTake
<1>10. CASE c.hits = Take(initial, k)
  BY <1>6, <1>7, <1>8, <1>9, <1>10 DEF c, initial, m, H, ids
<1>11. CASE /\ route.primary # "none" /\ first # Raised
            /\ c = [hits |-> Take(first, k), tried |-> <<route.primary>>]
  <2>1. /\ first \in Seq(H) /\ (route.primary = "hyde" \/ Ranks(query, first, ids))
        /\ Silent(reply) => first = initial
    BY <1>3, <1>4, <1>11 DEF first
  <2>2. c.hits = Take(first, k) /\ c.tried # <<>> /\ Last(c.tried) = route.primary
    BY <1>11 DEF Last
  <2>3. c.hits \in Seq(H) /\ (hyde \/ Ranks(query, c.hits, ids))
    BY <1>9, <2>1, <2>2
  <2>4. Silent(reply) => c.hits = plain
    BY <1>8, <2>1, <2>2
  <2> QED BY <1>6, <2>3, <2>4 DEF c, initial, m, H, ids
<1>12. CASE /\ route.primary # "none" /\ route.fallback # "none" /\ second # Raised
            /\ c = [hits |-> Take(second, k), tried |-> <<route.primary, route.fallback>>]
  <2>1. /\ second \in Seq(H) /\ (route.fallback = "hyde" \/ Ranks(query, second, ids))
        /\ Silent(reply) => second = initial
    BY <1>3, <1>4, <1>12 DEF second
  <2>2. c.hits = Take(second, k) /\ c.tried # <<>> /\ Last(c.tried) = route.fallback
    BY <1>12 DEF Last
  <2>3. c.hits \in Seq(H) /\ (hyde \/ Ranks(query, c.hits, ids))
    BY <1>9, <2>1, <2>2
  <2>4. Silent(reply) => c.hits = plain
    BY <1>8, <2>1, <2>2
  <2> QED BY <1>6, <2>3, <2>4 DEF c, initial, m, H, ids
<1> QED BY <1>6, <1>10, <1>11, <1>12

LEMMA ServingLeavesAnswer ==
  ASSUME UNCHANGED vars \/ \E t \in Threads : Step(t)
  PROVE  answer' = answer /\ stack' = stack
<1>1. CASE UNCHANGED vars
  BY <1>1 DEF vars, serveVars
<1>2. CASE \E t \in Threads : Step(t)
  <2>1. PICK t \in Threads : Step(t)
    BY <1>2
  <2>2. CASE StartJob(t) \/ Check(t) \/ Enter(t) \/ BuildLlm(t) \/ BuildRetriever(t)
    BY <2>2 DEF StartJob, Check, Enter, BuildLlm, BuildRetriever
  <2>3. CASE OwnRetriever(t) \/ LoadEmbedder(t) \/ PublishReranker(t) \/ FinishReranker(t)
    BY <2>3 DEF OwnRetriever, LoadEmbedder, PublishReranker, FinishReranker
  <2>4. CASE LoadFails(t) \/ NextClause(t) \/ RetrieveContext(t) \/ Advise(t)
    BY <2>4 DEF LoadFails, NextClause, RetrieveContext, Advise
  <2> QED BY <2>1, <2>2, <2>3, <2>4 DEF Step
<1> QED BY <1>1, <1>2

LEMMA CorrectionHolds ==
  ASSUME NEW table, IsTable(table), NEW req \in Requests, NEW reply \in Replies,
         NEW base, base = Corrective(table, req, req.top, reply), base.hits # Raised,
         NEW plain, plain = hybrid_retrieve(table, req.query, req.top, req)
  PROVE  /\ Silent(reply) => base.hits = plain
         /\ plain # <<>> =>
              \/ base.tried # <<>> /\ Last(base.tried) = "hyde"
              \/ base.hits # <<>> /\ base.hits[1].score >= plain[1].score
<1> DEFINE query == req.query
           k == req.top
           ids == IdSet(FusedCandidates(table, query, req))
           H == TableHits(table, req)
<1>1. query \in DOMAIN Texts /\ k \in Nat \ {0}
  BY RequestsAssumption DEF RequestsAssumption
<1>2. /\ Silent(reply) => base.hits = plain
      /\ hybrid_retrieve(table, query, AtLeast(k, EvalK), req) # Raised
      /\ \/ base.tried # <<>> /\ Last(base.tried) = "hyde"
         \/ Ranks(query, base.hits, ids)
  BY <1>1, CorrectiveHolds
<1>3. AtLeast(k, EvalK) \in Nat \ {0} /\ k <= AtLeast(k, EvalK)
  BY <1>1, DepthsAssumption DEF DepthsAssumption, AtLeast
<1>4. IdSet(plain) \subseteq ids /\ Ranks(query, plain, ids)
  BY <1>1, <1>2, <1>3, HybridHolds
<1>5. \/ plain \in Seq(H)
      \/ plain = Raised
  <2> DEFINE texts == <<query>>
  <2>1. texts \in Seq(DOMAIN Texts) /\ texts # <<>>
    BY <1>1
  <2>2. plain = RetrieveForAll(table, texts, query, k, req)
    BY DEF hybrid_retrieve
  <2> HIDE DEF texts
  <2> QED BY <1>1, <2>1, <2>2, RetrieveForAllHolds
<1>6. plain # <<>> => 1 \in DOMAIN plain
  <2>1. 1 \in DOMAIN Raised
    BY DEF Raised, Outcome
  <2>2. \A s \in Seq(H) : s # <<>> => 1 \in DOMAIN s
    OBVIOUS
  <2> QED BY <1>5, <2>1, <2>2
<1>7. ASSUME plain # <<>>
      PROVE  plain[1].id \in ids /\ plain[1].score = Texts[query].score[plain[1].id]
  BY <1>4, <1>6, <1>7 DEF IdSet, Ranks
<1> HIDE DEF query, k, ids
<1>8. ASSUME plain # <<>>, Ranks(query, base.hits, ids)
      PROVE  base.hits # <<>> /\ base.hits[1].score >= plain[1].score
  BY <1>7, <1>8 DEF Ranks
<1> QED BY <1>2, <1>8

LEMMA TableOfPrep ==
  ASSUME PrepInv
  PROVE  IsTable(rows)
BY DEF PrepInv, PrepType, IsTable

LEMMA CorrectionKept ==
  ASSUME PrepInv, CorrectionNeverCosts, [Next]_vars
  PROVE  CorrectionNeverCosts'
<1>1. CASE PrepareCorpus \/ Forget
  <2>1. answer' = NoAnswer
    BY <1>1 DEF PrepareCorpus, Forget, serveVars
  <2> QED BY <2>1 DEF CorrectionNeverCosts, NoAnswer
<1>2. CASE Ask
  <2> SUFFICES ASSUME stack' = [crag |-> TRUE, graph |-> FALSE], answer'.result.hits # Raised
               PROVE  /\ (/\ answer'.reply.hyde = "" /\ answer'.reply.broader = ""
                          /\ answer'.reply.variants = <<>>) =>
                             answer'.result.hits = answer'.plain
                      /\ answer'.plain # <<>> =>
                           \/ answer'.result.tried # <<>> /\ Last(answer'.result.tried) = "hyde"
                           \/ answer'.result.hits # <<>>
                              /\ answer'.result.hits[1].score >= answer'.plain[1].score
      BY DEF CorrectionNeverCosts
  <2>1. PICK req \in Requests, reply \in Replies :
          answer' = [via |-> "stack", req |-> req, reply |-> reply,
                     result |-> Retrieve(stack, rows, graph, ClausesById(PreferredClauses),
                                         req, reply),
                     plain |-> hybrid_retrieve(rows, req.query, req.top, req)]
    BY <1>2 DEF Ask, Answered
  <2>2. stack = [crag |-> TRUE, graph |-> FALSE]
    BY <1>2 DEF Ask
  <2> DEFINE base == Corrective(rows, req, req.top, reply)
             plain == hybrid_retrieve(rows, req.query, req.top, req)
             result == Retrieve(stack, rows, graph, ClausesById(PreferredClauses), req, reply)
  <2>3. result = [hits |-> base.hits, tried |-> base.tried, seed |-> <<>>, pool |-> <<>>]
    BY <2>2 DEF Retrieve, Layered
  <2> HIDE DEF base, plain, result
  <2>4. /\ answer'.reply = reply /\ answer'.plain = plain
        /\ answer'.result.hits = base.hits /\ answer'.result.tried = base.tried
    BY <2>1, <2>3 DEF plain, result
  <2>5. base.hits # Raised
    BY <2>4
  <2>6. /\ Silent(reply) => base.hits = plain
        /\ plain # <<>> =>
             \/ base.tried # <<>> /\ Last(base.tried) = "hyde"
             \/ base.hits # <<>> /\ base.hits[1].score >= plain[1].score
    BY <2>5, TableOfPrep, CorrectionHolds DEF base, plain
  <2> QED BY <2>4, <2>6 DEF Silent
<1>3. CASE AskQdrant
  <2>1. answer'.via # "stack"
    BY <1>3 DEF AskQdrant, Answered
  <2> QED BY <2>1 DEF CorrectionNeverCosts
<1>4. CASE \/ \E t \in Threads : Step(t)
           \/ UNCHANGED vars
  <2>1. answer' = answer /\ stack' = stack
    BY <1>4, ServingLeavesAnswer
  <2> QED BY <2>1 DEF CorrectionNeverCosts
<1> QED BY <1>1, <1>2, <1>3, <1>4 DEF Next

\* The corrective loop never makes an answer worse than the plain retrieval it
\* corrects, unless it answers with a hypothetical text: without a reply it gives
\* the plain answer, and a transform's first clause scores at least as high for
\* the query.
THEOREM CorrectionCostsNothing == Spec => []CorrectionNeverCosts
<1>1. Init => PrepInv /\ CorrectionNeverCosts
  BY PrepInvStarts DEF Init, CorrectionNeverCosts
<1>2. PrepInv /\ CorrectionNeverCosts /\ [Next]_vars => (PrepInv /\ CorrectionNeverCosts)'
  BY PrepInvKept, CorrectionKept
<1> QED BY <1>1, <1>2, PTL DEF Spec

(***************************************************************************)
(* The graph layer                                                         *)
(***************************************************************************)
IsGraph(g) == g.clauses \in Seq(ArticleIds) /\ IsFiniteSet(g.edges)

LEMMA ExceptionsHold ==
  ASSUME NEW g, IsGraph(g), NEW base, NEW x
  PROVE  Contains(ExceptionsOf(g, base), x) <=>
           x \in ToSet(g.clauses) /\ IsExceptionTo(g, base, x)
<1> DEFINE list == g.clauses
           K == {i \in DOMAIN list : IsExceptionTo(g, base, list[i])}
           e == ExceptionsOf(g, base)
<1>1. e = At(list, K)
  BY DEF ExceptionsOf, Keep
<1>2. list \in Seq(ArticleIds) /\ K \in SUBSET DOMAIN list
  BY DEF IsGraph
<1>3. {list[i] : i \in K} = {y \in ToSet(list) : IsExceptionTo(g, base, y)}
  BY DEF ToSet
<1> HIDE DEF list, K, e
<1>4. e \in Seq(ArticleIds) /\ ToSet(e) = {list[i] : i \in K}
  BY <1>1, <1>2, AtHolds
<1>5. Contains(e, x) <=> x \in ToSet(e)
  BY <1>4, ContainsHolds
<1> QED BY <1>3, <1>4, <1>5 DEF list, e

LEMMA PairsOrder ==
  ASSUME NEW m \in Nat, NEW n \in Nat, NEW K, K \subseteq (1 .. m) \X (1 .. n),
         NEW R, R = {p \in K \X K : \/ p[1][1] < p[2][1]
                                    \/ p[1][1] = p[2][1] /\ p[1][2] < p[2][2]}
  PROVE  IsFiniteSet(K) /\ Orders(R, K)
<1>1. IsFiniteSet(K)
  <2>1. IsFiniteSet((1 .. m) \X (1 .. n))
    <3> DEFINE A == 1 .. m
               B == 1 .. n
    <3>1. IsFiniteSet(A) /\ IsFiniteSet(B)
      BY FS_Interval
    <3> HIDE DEF A, B
    <3>2. IsFiniteSet(A \X B)
      BY <3>1, FS_Product
    <3> QED BY <3>2 DEF A, B
  <2> QED BY <2>1, FS_Subset
<1>2. \A a \in K : a[1] \in Int /\ a[2] \in Int /\ a = <<a[1], a[2]>>
  OBVIOUS
<1>3. \A a, b \in K : <<a, b>> \in R <=> \/ a[1] < b[1]
                                         \/ a[1] = b[1] /\ a[2] < b[2]
  OBVIOUS
<1>4. \A a \in K : <<a, a>> \notin R
  BY <1>2, <1>3
<1>5. ASSUME NEW a \in K, NEW b \in K, NEW c \in K, <<a, b>> \in R, <<b, c>> \in R
      PROVE  <<a, c>> \in R
  BY <1>2, <1>3, <1>5
<1>6. ASSUME NEW a \in K, NEW b \in K, a # b PROVE <<a, b>> \in R \/ <<b, a>> \in R
  <2>1. a[1] # b[1] \/ a[2] # b[2]
    BY <1>2, <1>6
  <2> QED BY <1>2, <1>3, <2>1
<1> QED
  <2>1. \A p \in R : p[1] \in K /\ p[2] \in K /\ p = <<p[1], p[2]>>
    OBVIOUS
  <2>2. \A a, b : <<a, b>> \in R => a \in K /\ b \in K
    BY <2>1
  <2> QED BY <1>1, <1>4, <1>5, <1>6, <2>2 DEF Orders

\* Expanding brings the exceptions to the ids, and nothing else.
LEMMA ExpandHolds ==
  ASSUME NEW g, IsGraph(g), NEW ids \in Seq(ArticleIds)
  PROVE  /\ expand_with_exceptions(g, ids) \in Seq(ArticleIds)
         /\ \A x : x \in ToSet(expand_with_exceptions(g, ids)) <=>
              \/ x \in ToSet(ids)
              \/ \E base \in ToSet(ids) : Contains(ExceptionsOf(g, base), x)
<1> DEFINE unique == FirstOfEach(ids)
           list == g.clauses
           brings == {p \in (DOMAIN unique) \X (DOMAIN list) :
                        /\ IsExceptionTo(g, unique[p[1]], list[p[2]])
                        /\ ~Contains(ids, list[p[2]])}
           R == {p \in brings \X brings : \/ p[1][1] < p[2][1]
                                          \/ p[1][1] = p[2][1] /\ p[1][2] < p[2][2]}
           brought == Ranked(brings, R)
           names == [n \in DOMAIN brought |-> list[brought[n][2]]]
           more == FirstOfEach(names)
           all == unique \o more
<1>1. expand_with_exceptions(g, ids) = all
  BY DEF expand_with_exceptions, Sorted
<1>2. unique \in Seq(ArticleIds) /\ ToSet(unique) = ToSet(ids) /\ list \in Seq(ArticleIds)
  BY FirstOfEachHolds DEF IsGraph
<1> HIDE DEF unique, list
<1>3. /\ Len(unique) \in Nat /\ DOMAIN unique = 1 .. Len(unique)
      /\ Len(list) \in Nat /\ DOMAIN list = 1 .. Len(list)
  BY <1>2
<1>4. brings \subseteq (1 .. Len(unique)) \X (1 .. Len(list))
  BY <1>3
<1>5. \A p \in brings : p[2] \in DOMAIN list
  OBVIOUS
<1>6. \A x : (\E p \in brings : x = list[p[2]]) <=>
        /\ x \notin ToSet(ids)
        /\ \E base \in ToSet(ids) : x \in ToSet(list) /\ IsExceptionTo(g, base, x)
  <2>1. \A x : Contains(ids, x) <=> x \in ToSet(ids)
    BY ContainsHolds
  <2>2. ASSUME NEW p \in brings
        PROVE  /\ list[p[2]] \notin ToSet(ids) /\ list[p[2]] \in ToSet(list)
               /\ unique[p[1]] \in ToSet(ids) /\ IsExceptionTo(g, unique[p[1]], list[p[2]])
    <3>1. p[1] \in DOMAIN unique /\ p[2] \in DOMAIN list
          /\ IsExceptionTo(g, unique[p[1]], list[p[2]]) /\ ~Contains(ids, list[p[2]])
      OBVIOUS
    <3>2. unique[p[1]] \in ToSet(unique) /\ list[p[2]] \in ToSet(list)
      BY <3>1 DEF ToSet
    <3> QED BY <1>2, <2>1, <3>1, <3>2
  <2>3. ASSUME NEW x, x \notin ToSet(ids), NEW base \in ToSet(ids), x \in ToSet(list),
               IsExceptionTo(g, base, x)
        PROVE  \E p \in brings : x = list[p[2]]
    <3>1. PICK i \in DOMAIN unique : unique[i] = base
      BY <1>2 DEF ToSet
    <3>2. PICK j \in DOMAIN list : list[j] = x
      BY <2>3 DEF ToSet
    <3>3. ~Contains(ids, list[j])
      BY <2>1, <2>3, <3>2
    <3>4. <<i, j>> \in brings
      BY <2>3, <3>1, <3>2, <3>3
    <3> QED BY <3>2, <3>4
  <2> HIDE DEF brings
  <2> QED BY <2>2, <2>3
<1> HIDE DEF brings
<1>7. IsFiniteSet(brings) /\ Orders(R, brings)
  BY <1>3, <1>4, PairsOrder
<1> HIDE DEF R
<1>8. Lists(brought, brings, R)
  BY <1>7, RankedLists
<1> HIDE DEF brought
<1>9. ToSet(brought) = brings /\ brought \in Seq(brings)
  BY <1>7, <1>8, ListsEach DEF Lists
<1>10. names \in Seq(ArticleIds)
  <2>1. \A n \in DOMAIN brought : brought[n] \in brings
    BY <1>9
  <2>2. \A n \in DOMAIN brought : list[brought[n][2]] \in ArticleIds
    BY <1>2, <1>5, <2>1
  <2> QED BY <1>9, <2>2
<1>11. \A x : x \in ToSet(names) <=> \E p \in brings : x = list[p[2]]
  <2>1. \A n \in DOMAIN brought : brought[n] \in brings
    BY <1>9
  <2>2. \A p \in brings : \E n \in DOMAIN brought : brought[n] = p
    BY <1>9 DEF ToSet
  <2> QED BY <2>1, <2>2 DEF ToSet
<1> HIDE DEF names
<1>12. more \in Seq(ArticleIds) /\ ToSet(more) = ToSet(names)
  BY <1>10, FirstOfEachHolds
<1> HIDE DEF more
<1>13. all \in Seq(ArticleIds) /\ ToSet(all) = ToSet(unique) \cup ToSet(more)
  BY <1>2, <1>12, Concatenated
<1> HIDE DEF all
<1>14. \A base, x : Contains(ExceptionsOf(g, base), x) <=>
         x \in ToSet(list) /\ IsExceptionTo(g, base, x)
  BY ExceptionsHold DEF list
<1> QED BY <1>1, <1>2, <1>6, <1>11, <1>12, <1>13, <1>14

\* The clauses of an element are linked to it.
LEMMA ElementHolds ==
  ASSUME NEW g, IsGraph(g), NEW element, NEW x,
         x \in ToSet(clauses_for_element(g, element, "none"))
  PROVE  x \in ArticleIds /\ explain_link(g, x, element) # "none"
<1> DEFINE G == GovernedBy(g, element)
           R == {p \in G \X G : Before(p[1], p[2])}
           inOrder == Ranked(G, R)
           K == {i \in DOMAIN inOrder : OccupancyApplies(g.occ[inOrder[i]], "none")}
           base == At(inOrder, K)
           wide == expand_with_exceptions(g, base)
           L == {i \in DOMAIN wide : \/ Contains(base, wide[i])
                                     \/ OccupancyApplies(g.occ[wide[i]], "none")}
<1>1. clauses_for_element(g, element, "none") = At(wide, L)
  BY DEF clauses_for_element, Keep, InIdOrder, Sorted
<1>2. G \subseteq ToSet(g.clauses) /\ ToSet(g.clauses) \subseteq ArticleIds
      /\ IsFiniteSet(ToSet(g.clauses))
  <2>1. g.clauses \in Seq(ArticleIds)
    BY DEF IsGraph
  <2>2. ToSet(g.clauses) \subseteq ArticleIds
    BY <2>1 DEF ToSet
  <2>3. G \subseteq ToSet(g.clauses)
    BY DEF GovernedBy
  <2> QED BY <2>1, <2>2, <2>3, FiniteRange
<1> HIDE DEF G
<1>3. IsFiniteSet(G) /\ G \subseteq ArticleIds
  BY <1>2, FS_Subset
<1>4. Orders(R, G)
  <2>1. \A a, b : <<a, b>> \in R <=> a \in G /\ b \in G /\ Before(a, b)
    OBVIOUS
  <2> HIDE DEF R
  <2>2. \A a \in G : a \in ArticleIds
    BY <1>3
  <2> QED BY <2>1, <2>2, BeforeOrders DEF Orders
<1> HIDE DEF R
<1>5. Lists(inOrder, G, R)
  BY <1>3, <1>4, RankedLists
<1> HIDE DEF inOrder
<1>6. inOrder \in Seq(G) /\ K \in SUBSET DOMAIN inOrder
  BY <1>5 DEF Lists
<1> HIDE DEF K
<1>7. base \in Seq(G) /\ ToSet(base) \subseteq G
  <2>1. base \in Seq(G)
    BY <1>6, AtHolds
  <2> HIDE DEF base
  <2> QED BY <2>1 DEF ToSet
<1> HIDE DEF base
<1>8. base \in Seq(ArticleIds)
  BY <1>3, <1>7
<1>9. wide \in Seq(ArticleIds)
      /\ \A y \in ToSet(wide) : y \in G \/ \E b \in G : Contains(ExceptionsOf(g, b), y)
  <2>1. wide \in Seq(ArticleIds)
    BY <1>8, ExpandHolds
  <2>2. \A y : y \in ToSet(wide) => y \in ToSet(base)
                 \/ \E b \in ToSet(base) : Contains(ExceptionsOf(g, b), y)
    BY <1>8, ExpandHolds
  <2> HIDE DEF wide
  <2> QED BY <1>7, <2>1, <2>2
<1>10. L \in SUBSET DOMAIN wide
  OBVIOUS
<1> HIDE DEF wide, L
<1>11. At(wide, L) \in Seq(ArticleIds) /\ ToSet(At(wide, L)) \subseteq ToSet(wide)
  <2>1. At(wide, L) \in Seq(ArticleIds) /\ ToSet(At(wide, L)) = {wide[i] : i \in L}
    BY <1>9, <1>10, AtHolds
  <2> QED BY <1>10, <2>1 DEF ToSet
<1>12. x \in ToSet(wide) /\ ToSet(wide) \subseteq ArticleIds
  <2>1. ToSet(wide) \subseteq ArticleIds
    BY <1>9 DEF ToSet
  <2> QED BY <1>1, <1>11, <2>1
<1> QED BY <1>9, <1>12 DEF explain_link, G

\* What a hit of an answer must have: the filters, and a path that brought it.
IsAccounted(h, table, g, req, seed) ==
  /\ Matches(h, req)
  /\ h.from = "vector" => h.id \in DOMAIN table
  /\ h.from = "exception_expansion" =>
       \E base \in ToSet(seed) : Contains(ExceptionsOf(g, base), h.id)
  /\ h.from = "graph_element" =>
       \E e \in _extract_elements(req.query) : explain_link(g, h.id, e) # "none"

LEMMA DegreeType ==
  ASSUME NEW g, IsGraph(g), NEW id
  PROVE  ClauseDegree(g, id) \in Int
<1> DEFINE E == {e \in g.edges : e.from = ClauseNode(id)}
<1>1. IsFiniteSet(E)
  BY FS_Subset DEF IsGraph
<1> HIDE DEF E
<1>2. Cardinality(E) \in Nat
  BY <1>1, FS_CardinalityType
<1> QED BY <1>2 DEF ClauseDegree, E

\* The three lists the graph layer fuses, and the pool it takes from them.
LEMMA PoolHolds ==
  ASSUME NEW lists \in Seq(Seq(ArticleIds)), NEW k \in Nat,
         NEW pool, pool = Take(ByScore(rrf_fuse(lists)), k)
  PROVE  /\ pool \in Seq(ArticleIds)
         /\ \A i \in DOMAIN pool : \E m \in DOMAIN lists : pool[i] \in ToSet(lists[m])
         /\ \A i, j \in DOMAIN pool : pool[i] = pool[j] => i = j
         /\ \/ Len(pool) >= k
            \/ \A m \in DOMAIN lists : ToSet(lists[m]) \subseteq ToSet(pool)
<1> DEFINE fused == rrf_fuse(lists)
           order == ByScore(fused)
<1>1. /\ DOMAIN fused = UNION {ToSet(lists[i]) : i \in DOMAIN lists}
      /\ IsFiniteSet(DOMAIN fused) /\ \A id \in DOMAIN fused : fused[id] \in Int
  BY RrfHolds
<1>2. DOMAIN fused \subseteq ArticleIds
  <2>1. \A i \in DOMAIN lists : lists[i] \in Seq(ArticleIds)
    OBVIOUS
  <2>2. \A i \in DOMAIN lists : ToSet(lists[i]) \subseteq ArticleIds
    BY <2>1 DEF ToSet
  <2> HIDE DEF fused
  <2> QED BY <1>1, <2>2
<1> HIDE DEF fused
<1>3. /\ order \in Seq(DOMAIN fused) /\ ToSet(order) = DOMAIN fused
      /\ \A m, n \in DOMAIN order : order[m] = order[n] => m = n
  BY <1>1, <1>2, ByScoreHolds
<1> HIDE DEF order
<1>4. pool = Take(order, k)
  BY DEF order, fused
<1>5. /\ pool \in Seq(DOMAIN fused)
      /\ Len(pool) = IF Len(order) < k THEN Len(order) ELSE k
      /\ \A i \in 1 .. Len(pool) : pool[i] = order[i]
      /\ Len(order) <= k => pool = order
  BY <1>3, <1>4, TakeHolds
<1>6. DOMAIN pool = 1 .. Len(pool) /\ DOMAIN order = 1 .. Len(order)
      /\ Len(pool) <= Len(order) /\ Len(order) \in Nat /\ Len(pool) \in Nat
  BY <1>3, <1>5
<1>7. pool \in Seq(ArticleIds)
  <2>1. \A i \in DOMAIN pool : pool[i] \in ArticleIds
    BY <1>2, <1>5
  <2> QED BY <1>5, <2>1
<1>8. \A i \in DOMAIN pool : \E m \in DOMAIN lists : pool[i] \in ToSet(lists[m])
  <2>1. \A i \in DOMAIN pool : pool[i] \in DOMAIN fused
    BY <1>5
  <2> QED BY <1>1, <2>1
<1>9. \A i, j \in DOMAIN pool : pool[i] = pool[j] => i = j
  BY <1>3, <1>5, <1>6
<1>10. Len(pool) >= k \/ pool = order
  BY <1>5, <1>6
<1>11. \A m \in DOMAIN lists : ToSet(lists[m]) \subseteq ToSet(order)
  BY <1>1, <1>3
<1> QED BY <1>7, <1>8, <1>9, <1>10, <1>11

LEMMA GraphAnswerHolds ==
  ASSUME NEW table, IsTable(table), NEW g, IsGraph(g), NEW clauses, NEW req \in Requests,
         NEW base, base.hits \in Seq(TableHits(table, req)),
         NEW a, a = GraphAnswer(base, g, clauses, req)
  PROVE  /\ \A i \in DOMAIN a.hits : IsAccounted(a.hits[i], table, g, req, a.seed)
         /\ a.pool \in Seq(ArticleIds)
         /\ \/ Len(a.pool) >= PoolK
            \/ \A b \in ToSet(a.seed) : \A exc :
                 Contains(ExceptionsOf(g, b), exc) /\ PassesFilters(clauses, exc, req)
                   => exc \in ToSet(a.pool)
<1> DEFINE H == TableHits(table, req)
           seed == HitIds(base.hits)
           passes(x) == PassesFilters(clauses, x, req)
           wide == expand_with_exceptions(g, seed)
           K == {i \in DOMAIN wide : Contains(seed, wide[i]) \/ passes(wide[i])}
           expanded == At(wide, K)
           els == _extract_elements(req.query)
           governing == {x \in UNION {ToSet(clauses_for_element(g, e, "none")) : e \in els} :
                           passes(x)}
           R == {p \in governing \X governing :
                   \/ ClauseDegree(g, p[1]) > ClauseDegree(g, p[2])
                   \/ ClauseDegree(g, p[1]) = ClauseDegree(g, p[2]) /\ Before(p[1], p[2])}
           ranked == Ranked(governing, R)
           lists == <<seed, expanded, ranked>>
           k == AtLeast(PoolK, req.top)
           pool == Take(ByScore(rrf_fuse(lists)), k)
           origin(x) == CASE Contains(seed, x) -> "vector"
                          [] ~Contains(seed, x) /\ Contains(expanded, x) -> "exception_expansion"
                          [] OTHER -> "graph_element"
           own(x) == base.hits[CHOOSE i \in DOMAIN seed : seed[i] = x]
           made(x) == [id |-> x, part |-> clauses[x].part, rule |-> clauses[x].rule,
                       score |-> 0, from |-> origin(x)]
           hit(x) == IF Contains(seed, x) THEN own(x) ELSE made(x)
           cands == [i \in DOMAIN pool |-> hit(pool[i])]
<1>1. /\ a.hits = Rerank(req.query, cands, req.top)
      /\ a.seed = seed /\ a.pool = pool
  BY DEF GraphAnswer, Keep, Sorted
<1>2. req.query \in DOMAIN Texts /\ req.top \in Nat /\ k \in Nat /\ k >= PoolK
      /\ PoolK \in Nat
  BY RequestsAssumption, DepthsAssumption DEF RequestsAssumption, DepthsAssumption, AtLeast
<1>3. IsHitSet(H) /\ \A h \in H : /\ IsHit(h) /\ h.id \in DOMAIN table /\ h.from = "vector"
                                  /\ Matches(h, req)
  BY TableHitsTell, TableHitHolds
<1> HIDE DEF H, k
<1>4. base.hits \in Seq(H)
  BY DEF H
<1>5. /\ seed \in Seq(ArticleIds) /\ DOMAIN seed = DOMAIN base.hits
      /\ \A i \in DOMAIN seed : seed[i] = base.hits[i].id
      /\ \A x : Contains(seed, x) <=> x \in ToSet(seed)
  <2>1. /\ seed \in Seq(ArticleIds) /\ DOMAIN seed = DOMAIN base.hits
        /\ \A i \in DOMAIN base.hits : seed[i] = base.hits[i].id
    BY <1>3, <1>4, HitIdsHold
  <2> HIDE DEF seed
  <2> QED BY <2>1, ContainsHolds
<1>6. \A x : x \in ToSet(seed) => own(x) \in H /\ own(x).id = x
  <2> SUFFICES ASSUME NEW x, x \in ToSet(seed) PROVE own(x) \in H /\ own(x).id = x
      OBVIOUS
  <2> DEFINE n == CHOOSE i \in DOMAIN seed : seed[i] = x
  <2>1. \E i \in DOMAIN seed : seed[i] = x
    BY DEF ToSet
  <2> HIDE DEF seed
  <2>2. n \in DOMAIN seed /\ seed[n] = x
    BY <2>1
  <2> HIDE DEF n
  <2>3. base.hits[n] \in H /\ base.hits[n].id = x
    BY <1>4, <1>5, <2>2
  <2> QED BY <2>3 DEF n
<1> HIDE DEF seed, own
<1>7. /\ wide \in Seq(ArticleIds)
      /\ \A x : x \in ToSet(wide) <=>
           x \in ToSet(seed) \/ \E b \in ToSet(seed) : Contains(ExceptionsOf(g, b), x)
  BY <1>5, ExpandHolds
<1> HIDE DEF wide, passes
<1>8. /\ expanded \in Seq(ArticleIds)
      /\ \A x : x \in ToSet(expanded) <=> x \in ToSet(wide) /\ (x \in ToSet(seed) \/ passes(x))
      /\ \A x : Contains(expanded, x) <=> x \in ToSet(expanded)
  <2>1. K \in SUBSET DOMAIN wide
    OBVIOUS
  <2>2. {wide[i] : i \in K} = {x \in ToSet(wide) : x \in ToSet(seed) \/ passes(x)}
    BY <1>5 DEF ToSet
  <2> HIDE DEF K
  <2>3. expanded \in Seq(ArticleIds) /\ ToSet(expanded) = {wide[i] : i \in K}
    BY <1>7, <2>1, AtHolds
  <2> HIDE DEF expanded
  <2> QED BY <2>2, <2>3, ContainsHolds
<1> HIDE DEF expanded
<1>9. \A x \in governing : /\ passes(x) /\ x \in ArticleIds
                           /\ \E e \in els : explain_link(g, x, e) # "none"
  <2> SUFFICES ASSUME NEW x \in governing
               PROVE  /\ passes(x) /\ x \in ArticleIds
                      /\ \E e \in els : explain_link(g, x, e) # "none"
      OBVIOUS
  <2>1. PICK e \in els : x \in ToSet(clauses_for_element(g, e, "none"))
    OBVIOUS
  <2>2. x \in ArticleIds /\ explain_link(g, x, e) # "none"
    BY <2>1, ElementHolds
  <2> QED BY <2>2
<1> HIDE DEF governing
<1>10. ranked \in Seq(governing) /\ ranked \in Seq(ArticleIds)
  <2> DEFINE score == [x \in governing |-> ClauseDegree(g, x)]
             key == [x \in governing |-> x]
  <2>1. R = ScoreOrder(governing, score, key)
    BY DEF ScoreOrder
  <2>2. \A x \in governing : score[x] \in Int /\ key[x] \in ArticleIds
    BY <1>9, DegreeType
  <2>3. \A x, y \in governing : key[x] = key[y] => x = y
    OBVIOUS
  <2>4. IsFiniteSet(governing)
    <3>1. IsFiniteSet(ArticleIds)
      BY IdOrderAssumption, FiniteRange DEF IdOrderAssumption, ArticleIds
    <3>2. governing \in SUBSET ArticleIds
      BY <1>9
    <3> QED BY <3>1, <3>2, FS_Subset
  <2>5. ranked = Ranked(governing, ScoreOrder(governing, score, key))
    BY <2>1
  <2> HIDE DEF R, score, key, ranked
  <2>6. ranked \in Seq(governing)
    BY <2>2, <2>3, <2>4, <2>5, RankedByScore
  <2>7. \A i \in DOMAIN ranked : ranked[i] \in ArticleIds
    BY <1>9, <2>6
  <2> QED BY <2>6, <2>7
<1> HIDE DEF ranked
<1>11. /\ lists \in Seq(Seq(ArticleIds)) /\ DOMAIN lists = {1, 2, 3}
       /\ lists[1] = seed /\ lists[2] = expanded /\ lists[3] = ranked
  BY <1>5, <1>8, <1>10
<1> HIDE DEF lists
<1>12. /\ pool \in Seq(ArticleIds)
       /\ \A i \in DOMAIN pool : \E m \in DOMAIN lists : pool[i] \in ToSet(lists[m])
       /\ \A i, j \in DOMAIN pool : pool[i] = pool[j] => i = j
       /\ \/ Len(pool) >= k
          \/ \A m \in DOMAIN lists : ToSet(lists[m]) \subseteq ToSet(pool)
  BY <1>2, <1>11, PoolHolds
<1> HIDE DEF pool
<1>13. \A i \in DOMAIN pool : \/ pool[i] \in ToSet(seed)
                              \/ pool[i] \in ToSet(expanded)
                              \/ pool[i] \in governing
  <2>1. \A x : x \in ToSet(ranked) => x \in governing
    BY <1>10 DEF ToSet
  <2> QED BY <1>11, <1>12, <2>1
<1>14. ASSUME NEW x \in ArticleIds, x \in ToSet(seed) \/ x \in ToSet(expanded) \/ x \in governing
       PROVE  IsHit(hit(x)) /\ hit(x).id = x /\ IsAccounted(hit(x), table, g, req, seed)
  <2>1. CASE x \in ToSet(seed)
    <3>1. hit(x) = own(x) /\ own(x) \in H /\ own(x).id = x
      BY <1>5, <1>6, <2>1
    <3> HIDE DEF hit
    <3>2. IsHit(hit(x)) /\ hit(x).id \in DOMAIN table /\ hit(x).from = "vector"
          /\ Matches(hit(x), req)
      BY <1>3, <3>1
    <3> QED BY <3>1, <3>2 DEF IsAccounted
  <2>2. CASE x \notin ToSet(seed)
    <3>1. hit(x) = made(x) /\ ~Contains(seed, x)
      BY <1>5, <2>2
    <3> DEFINE o == origin(x)
    <3>2. /\ made(x).id = x /\ made(x).from = o
          /\ made(x).part = clauses[x].part /\ made(x).rule = clauses[x].rule
      OBVIOUS
    <3>3. IsHit(made(x))
      BY DEF IsHit
    <3>4. \/ o = "exception_expansion" /\ x \in ToSet(expanded)
          \/ o = "graph_element" /\ x \notin ToSet(expanded)
      BY <1>8, <3>1
    <3> HIDE DEF origin, made, o, hit
    <3>5. passes(x)
      BY <1>8, <1>9, <1>14, <2>2
    <3>6. Matches(made(x), req)
      BY <3>2, <3>5 DEF passes, PassesFilters, Matches
    <3>7. CASE o = "exception_expansion" /\ x \in ToSet(expanded)
      <4>1. \E b \in ToSet(seed) : Contains(ExceptionsOf(g, b), x)
        BY <1>7, <1>8, <2>2, <3>7
      <4> QED BY <3>1, <3>2, <3>3, <3>6, <3>7, <4>1 DEF IsAccounted
    <3>8. CASE o = "graph_element" /\ x \notin ToSet(expanded)
      <4>1. \E e \in els : explain_link(g, x, e) # "none"
        BY <1>9, <1>14, <2>2, <3>8
      <4> QED BY <3>1, <3>2, <3>3, <3>6, <3>8, <4>1 DEF IsAccounted
    <3> QED BY <3>4, <3>7, <3>8
  <2> QED BY <2>1, <2>2
<1> HIDE DEF hit
<1>15. \A i \in DOMAIN pool : /\ IsHit(hit(pool[i])) /\ hit(pool[i]).id = pool[i]
                              /\ IsAccounted(hit(pool[i]), table, g, req, seed)
  <2>1. \A i \in DOMAIN pool : pool[i] \in ArticleIds
    BY <1>12
  <2> QED BY <1>13, <1>14, <2>1
<1>16. /\ cands \in Seq(ToSet(cands)) /\ DOMAIN cands = DOMAIN pool
       /\ \A i \in DOMAIN cands : IsHit(cands[i]) /\ IsAccounted(cands[i], table, g, req, seed)
       /\ Tells(cands)
  <2>1. DOMAIN cands = DOMAIN pool /\ \A i \in DOMAIN cands : cands[i] = hit(pool[i])
    OBVIOUS
  <2>2. cands \in Seq(ToSet(cands))
    <3>1. \A i \in DOMAIN pool : hit(pool[i]) \in ToSet(cands)
      BY DEF ToSet
    <3> QED BY <1>12, <3>1
  <2> HIDE DEF cands
  <2>3. \A i, j \in DOMAIN cands : cands[i].id = cands[j].id => i = j
    BY <1>12, <1>15, <2>1
  <2> QED BY <1>15, <2>1, <2>2, <2>3 DEF Tells
<1> HIDE DEF cands
<1>17. PICK s : IsRanking(s, req.query, cands)
  BY <1>2, <1>16, RerankHolds
<1>18. /\ s \in Seq(Rescoring(req.query, cands)) /\ a.hits = Take(s, req.top)
  BY <1>1, <1>2, <1>17 DEF IsRanking
<1>19. a.hits \in Seq(Rescoring(req.query, cands))
  BY <1>2, <1>18, TakeHolds
<1>20. \A h \in Rescoring(req.query, cands) : IsAccounted(h, table, g, req, seed)
  <2> SUFFICES ASSUME NEW i \in DOMAIN cands
               PROVE  IsAccounted(Rescored(req.query, cands[i]), table, g, req, seed)
      BY DEF Rescoring
  <2> DEFINE h == cands[i]
             r == Rescored(req.query, h)
  <2>1. r.id = h.id /\ r.part = h.part /\ r.rule = h.rule /\ r.from = h.from
    BY DEF Rescored
  <2>2. IsAccounted(h, table, g, req, seed)
    BY <1>16
  <2> HIDE DEF h, r
  <2>3. IsAccounted(r, table, g, req, seed)
    BY <2>1, <2>2 DEF IsAccounted, Matches
  <2> QED BY <2>3 DEF r, h
<1>21. \A i \in DOMAIN a.hits : IsAccounted(a.hits[i], table, g, req, a.seed)
  BY <1>1, <1>19, <1>20
<1>22. \/ Len(a.pool) >= PoolK
       \/ \A b \in ToSet(a.seed) : \A exc :
            Contains(ExceptionsOf(g, b), exc) /\ PassesFilters(clauses, exc, req)
              => exc \in ToSet(a.pool)
  <2>1. CASE Len(pool) >= k
    BY <1>1, <1>2, <1>12, <2>1
  <2>2. CASE \A m \in DOMAIN lists : ToSet(lists[m]) \subseteq ToSet(pool)
    <3>1. ToSet(expanded) \subseteq ToSet(pool)
      BY <1>11, <2>2
    <3>2. \A b \in ToSet(seed) : \A exc :
            Contains(ExceptionsOf(g, b), exc) /\ passes(exc) => exc \in ToSet(expanded)
      BY <1>7, <1>8
    <3> QED BY <1>1, <3>1, <3>2 DEF passes
  <2> QED BY <1>12, <2>1, <2>2
<1> QED BY <1>1, <1>12, <1>21, <1>22

(***************************************************************************)
(* The answers of the configured stack                                     *)
(***************************************************************************)
AreAccounted(r, table, g, req) ==
  r.hits # Raised => \A i \in DOMAIN r.hits : IsAccounted(r.hits[i], table, g, req, r.seed)

Travels(r, g, clauses, req) ==
  \A base \in ToSet(r.seed) : \A exc \in ToSet(ExceptionsOf(g, base)) :
    \/ Contains(r.pool, exc)
    \/ Len(r.pool) >= PoolK
    \/ ~PassesFilters(clauses, exc, req)

LEMMA TableHitsAccounted ==
  ASSUME NEW table, IsTable(table), NEW req, NEW g, NEW seed,
         NEW hits \in Seq(TableHits(table, req))
  PROVE  \A i \in DOMAIN hits : IsAccounted(hits[i], table, g, req, seed)
<1> DEFINE H == TableHits(table, req)
<1>1. \A h \in H : h.id \in DOMAIN table /\ h.from = "vector" /\ Matches(h, req)
  BY TableHitHolds
<1>2. \A h \in H : IsAccounted(h, table, g, req, seed)
  BY <1>1 DEF IsAccounted
<1> HIDE DEF H
<1>3. \A i \in DOMAIN hits : hits[i] \in H
  BY DEF H
<1> QED BY <1>2, <1>3

\* What the graph layer is put around: hits of the table, or none.
LEMMA BaseHolds ==
  ASSUME NEW table, IsTable(table), NEW req \in Requests, NEW reply \in Replies,
         NEW k \in Nat \ {0}, NEW base,
         base \in {Corrective(table, req, k, reply), Plain(table, req, k)},
         base.hits # Raised
  PROVE  base.hits \in Seq(TableHits(table, req))
<1>1. req.query \in DOMAIN Texts
  BY RequestsAssumption DEF RequestsAssumption
<1>2. CASE base = Corrective(table, req, k, reply)
  BY <1>1, <1>2, CorrectiveHolds
<1>3. CASE base = Plain(table, req, k)
  <2> DEFINE texts == <<req.query>>
  <2>1. texts \in Seq(DOMAIN Texts) /\ texts # <<>>
    BY <1>1
  <2>2. base.hits = RetrieveForAll(table, texts, req.query, k, req)
    BY <1>3 DEF Plain, hybrid_retrieve
  <2> HIDE DEF texts
  <2> QED BY <1>1, <2>1, <2>2, RetrieveForAllHolds
<1> QED BY <1>2, <1>3

\* Whatever the stack is made of, its hits are accounted for, and the
\* exceptions of a clause it starts from come with it.
LEMMA RetrieveHolds ==
  ASSUME NEW flags, NEW table, IsTable(table), NEW g, IsGraph(g), NEW clauses,
         NEW req \in Requests, NEW reply \in Replies,
         NEW r, r = Retrieve(flags, table, g, clauses, req, reply)
  PROVE  AreAccounted(r, table, g, req) /\ Travels(r, g, clauses, req)
<1> DEFINE k == IF flags.graph THEN AtLeast(req.top, EvalK) ELSE req.top
           base == IF flags.crag THEN Corrective(table, req, k, reply) ELSE Plain(table, req, k)
<1>1. r = Layered(flags, base, g, clauses, req)
  BY DEF Retrieve
<1>2. k \in Nat \ {0}
  BY RequestsAssumption, DepthsAssumption DEF RequestsAssumption, DepthsAssumption, AtLeast
<1> HIDE DEF k
<1>3. base.hits # Raised => base.hits \in Seq(TableHits(table, req))
  <2>1. base \in {Corrective(table, req, k, reply), Plain(table, req, k)}
    OBVIOUS
  <2> HIDE DEF base
  <2> QED BY <1>2, <2>1, BaseHolds
<1> HIDE DEF base
<1>4. CASE ~flags.graph \/ base.hits = Raised
  <2>1. r = [hits |-> base.hits, tried |-> base.tried, seed |-> <<>>, pool |-> <<>>]
    BY <1>1, <1>4 DEF Layered, Failed
  <2>2. r.hits = base.hits /\ r.seed = <<>>
    BY <2>1
  <2>3. AreAccounted(r, table, g, req)
    <3> SUFFICES ASSUME r.hits # Raised
                 PROVE  \A i \in DOMAIN r.hits : IsAccounted(r.hits[i], table, g, req, r.seed)
        BY DEF AreAccounted
    <3>1. r.hits \in Seq(TableHits(table, req))
      BY <1>3, <2>2
    <3> QED BY <3>1, TableHitsAccounted
  <2>4. ToSet(r.seed) = {}
    BY <2>2 DEF ToSet
  <2> QED BY <2>3, <2>4 DEF Travels
<1>5. CASE ~(~flags.graph \/ base.hits = Raised)
  <2>1. r = GraphAnswer(base, g, clauses, req)
    BY <1>1, <1>5 DEF Layered, Failed
  <2>2. /\ \A i \in DOMAIN r.hits : IsAccounted(r.hits[i], table, g, req, r.seed)
        /\ r.pool \in Seq(ArticleIds)
        /\ \/ Len(r.pool) >= PoolK
           \/ \A b \in ToSet(r.seed) : \A exc :
                Contains(ExceptionsOf(g, b), exc) /\ PassesFilters(clauses, exc, req)
                  => exc \in ToSet(r.pool)
    BY <1>3, <1>5, <2>1, GraphAnswerHolds
  <2>3. \A exc : exc \in ToSet(r.pool) => Contains(r.pool, exc)
    BY <2>2, ContainsHolds
  <2>4. \A b, exc : exc \in ToSet(ExceptionsOf(g, b)) => Contains(ExceptionsOf(g, b), exc)
    BY DEF Contains, ToSet
  <2> QED BY <2>2, <2>3, <2>4 DEF AreAccounted, Travels
<1> QED BY <1>4, <1>5

LEMMA QdrantHolds ==
  ASSUME NEW table, IsTable(table), NEW g, NEW clauses, NEW req \in Requests,
         NEW r, r = QdrantRetrieve(table, req)
  PROVE  AreAccounted(r, table, g, req) /\ Travels(r, g, clauses, req)
<1> DEFINE near == dense_retrieve(table, req.query, CandidateK, req)
<1>1. r = [hits |-> Rerank(req.query, near, req.top), tried |-> <<>>, seed |-> <<>>, pool |-> <<>>]
  BY DEF QdrantRetrieve
<1>2. req.query \in DOMAIN Texts /\ req.top \in Nat \ {0} /\ CandidateK \in Nat
  BY RequestsAssumption, DepthsAssumption DEF RequestsAssumption, DepthsAssumption
<1>3. near \in Seq(TableHits(table, req))
  BY <1>2, DenseHolds
<1> HIDE DEF near
<1>4. r.hits \in Seq(TableHits(table, req)) /\ r.seed = <<>>
  BY <1>1, <1>2, <1>3, RerankTable
<1>5. ToSet(r.seed) = {}
  BY <1>4 DEF ToSet
<1> QED BY <1>4, <1>5, TableHitsAccounted DEF AreAccounted, Travels

\* Both invariants, as what an answer of a state must be.
AnswerHolds(ans, table, g, clauses) ==
  /\ ans.result.hits # Hangs => AreAccounted(ans.result, table, g, ans.req)
  /\ Travels(ans.result, g, clauses, ans.req)

LEMMA AnswersRead ==
  ASSUME answer # NoAnswer => AnswerHolds(answer, rows, graph, ClausesById(PreferredClauses))
  PROVE  HitsAreAccountedFor /\ ExceptionTravelsWithItsClause
<1>1. ASSUME answer # NoAnswer
      PROVE  \A h \in HitSet : IsAccounted(h, rows, graph, answer.req, answer.result.seed)
  <2> SUFFICES ASSUME NEW i \in Returned
               PROVE  IsAccounted(answer.result.hits[i], rows, graph, answer.req,
                                  answer.result.seed)
      BY DEF HitSet
  <2>1. i \in DOMAIN answer.result.hits /\ answer.result.hits \notin {Raised, Hangs}
    BY DEF Returned
  <2> QED BY <1>1, <2>1 DEF AnswerHolds, AreAccounted
<1>2. HitsAreAccountedFor
  BY <1>1 DEF HitsAreAccountedFor, IsAccounted
<1>3. ExceptionTravelsWithItsClause
  BY DEF ExceptionTravelsWithItsClause, AnswerHolds, Travels
<1> QED BY <1>2, <1>3

LEMMA AnswersMade ==
  ASSUME PrepInv
  PROVE  /\ \A req \in Requests, reply \in Replies :
              LET r == Retrieve(stack, rows, graph, ClausesById(PreferredClauses), req, reply)
              IN /\ AreAccounted(r, rows, graph, req)
                 /\ Travels(r, graph, ClausesById(PreferredClauses), req)
         /\ \A req \in Requests :
              LET r == QdrantRetrieve(rows, req)
              IN /\ AreAccounted(r, rows, graph, req)
                 /\ Travels(r, graph, ClausesById(PreferredClauses), req)
<1> DEFINE clauses == ClausesById(PreferredClauses)
<1>1. IsTable(rows) /\ IsGraph(graph)
  BY TableOfPrep DEF PrepInv, PrepType, IsGraph
<1> HIDE DEF clauses
<1>2. \A req \in Requests, reply \in Replies :
        LET r == Retrieve(stack, rows, graph, clauses, req, reply)
        IN AreAccounted(r, rows, graph, req) /\ Travels(r, graph, clauses, req)
  BY <1>1, RetrieveHolds
<1>3. \A req \in Requests :
        LET r == QdrantRetrieve(rows, req)
        IN AreAccounted(r, rows, graph, req) /\ Travels(r, graph, clauses, req)
  BY <1>1, QdrantHolds
<1> QED BY <1>2, <1>3 DEF clauses

Answers == answer # NoAnswer => AnswerHolds(answer, rows, graph, ClausesById(PreferredClauses))

LEMMA AnswersKept ==
  ASSUME PrepInv, Answers, [Next]_vars
  PROVE  Answers'
<1> DEFINE clauses == ClausesById(PreferredClauses)
<1>1. CASE PrepareCorpus \/ Forget
  <2>1. answer' = NoAnswer
    BY <1>1 DEF PrepareCorpus, Forget, serveVars
  <2> QED BY <2>1 DEF Answers
<1>2. ~PrepareCorpus =>
        rows' = rows /\ graph' = graph /\ PreferredClauses' = PreferredClauses
  <2>1. UNCHANGED Corpus => rows' = rows /\ graph' = graph /\ file' = file /\ contexts' = contexts
    BY DEF Corpus
  <2>2. UNCHANGED Corpus => PreferredClauses' = PreferredClauses
    BY <2>1 DEF PreferredClauses
  <2> QED BY <2>1, <2>2, ServingLeavesCorpus
<1>3. CASE Ask /\ ~PrepareCorpus
  <2>1. PICK req \in Requests, reply \in Replies :
          Answered("stack", req, reply, Retrieve(stack, rows, graph, clauses, req, reply))
    BY <1>3 DEF Ask
  <2> DEFINE r == Retrieve(stack, rows, graph, clauses, req, reply)
  <2>2. AreAccounted(r, rows, graph, req) /\ Travels(r, graph, clauses, req)
    BY AnswersMade
  <2> HIDE DEF r, clauses
  <2>3. answer'.result = r /\ answer'.req = req
    BY <2>1 DEF Answered, r
  <2>4. AnswerHolds(answer', rows, graph, clauses)
    BY <2>2, <2>3 DEF AnswerHolds
  <2> QED BY <1>2, <1>3, <2>4 DEF Answers, clauses
<1>4. CASE AskQdrant /\ ~PrepareCorpus
  <2>1. PICK req \in Requests : \E reply, result :
          /\ Answered("qdrant", req, reply, result)
          /\ result \in {NoHits(Hangs), NoHits(Raised), QdrantRetrieve(rows, req)}
    BY <1>4 DEF AskQdrant
  <2>2. PICK result \in {NoHits(Hangs), NoHits(Raised), QdrantRetrieve(rows, req)} :
          answer'.result = result /\ answer'.req = req
    BY <2>1 DEF Answered
  <2>3. CASE result \in {NoHits(Hangs), NoHits(Raised)}
    <3>1. /\ result.seed = <<>>
          /\ result.hits = Hangs \/ result.hits = Raised
      BY <2>3 DEF NoHits
    <3>2. ToSet(result.seed) = {}
      BY <3>1 DEF ToSet
    <3>3. AnswerHolds(answer', rows, graph, clauses)
      BY <2>2, <3>1, <3>2 DEF AnswerHolds, AreAccounted, Travels
    <3> HIDE DEF clauses
    <3> QED BY <1>2, <1>4, <3>3 DEF Answers, clauses
  <2>4. CASE result = QdrantRetrieve(rows, req)
    <3>1. AreAccounted(result, rows, graph, req) /\ Travels(result, graph, clauses, req)
      BY <2>4, AnswersMade
    <3> HIDE DEF clauses
    <3>2. AnswerHolds(answer', rows, graph, clauses)
      BY <2>2, <3>1 DEF AnswerHolds
    <3> QED BY <1>2, <1>4, <3>2 DEF Answers, clauses
  <2> QED BY <2>3, <2>4
<1>5. CASE ((\E t \in Threads : Step(t)) \/ UNCHANGED vars) /\ ~PrepareCorpus
  <2>1. answer' = answer
    BY <1>5, ServingLeavesAnswer
  <2> QED BY <1>2, <1>5, <2>1 DEF Answers
<1> QED BY <1>1, <1>3, <1>4, <1>5 DEF Next

LEMMA AnswersStart ==
  ASSUME Init
  PROVE  PrepInv /\ Answers
BY PrepInvStarts DEF Init, Answers

\* Every hit of an answer meets the filters of the request and was brought by a
\* path of the graph, whichever leg, variant of the query or layer brought it.
THEOREM HitsHaveAPath == Spec => []HitsAreAccountedFor
<1>1. Init => PrepInv /\ Answers
  BY AnswersStart
<1>2. PrepInv /\ Answers /\ [Next]_vars => (PrepInv /\ Answers)'
  BY PrepInvKept, AnswersKept
<1>3. Answers => HitsAreAccountedFor
  BY AnswersRead DEF Answers
<1> QED BY <1>1, <1>2, <1>3, PTL DEF Spec

\* The exceptions to a clause that is retrieved are put before the cross-encoder
\* with it, as far as the filters admit them and the pool has room.
THEOREM ExceptionsTravel == Spec => []ExceptionTravelsWithItsClause
<1>1. Init => PrepInv /\ Answers
  BY AnswersStart
<1>2. PrepInv /\ Answers /\ [Next]_vars => (PrepInv /\ Answers)'
  BY PrepInvKept, AnswersKept
<1>3. Answers => ExceptionTravelsWithItsClause
  BY AnswersRead DEF Answers
<1> QED BY <1>1, <1>2, <1>3, PTL DEF Spec
=============================================================================
