---------------------------- MODULE AdvisoryPass ----------------------------
(***************************************************************************)
(* The advisory pass of the compliance engine over the prepared corpus:    *)
(* the caches a worker process fills once under double-checked locks       *)
(* (api/pipeline.py, rag/embeddings.py, rag/reranker.py), the retriever    *)
(* the factory builds (rag/rag_retriever.py), and the pass itself, which   *)
(* asks a model for one note per clause that needs a review                *)
(* (validation/compliance/runner.py).  Jobs run in threads of one process; *)
(* evaluations query the same corpus from processes of their own.          *)
(***************************************************************************)
EXTENDS CorpusPreparation, ClauseRetrieval

CONSTANTS
  Threads,         \* the threads that run jobs in the worker process
  Findings,        \* thread -> the findings of its job: [article, review, unsupported]
  RuleText,        \* article id -> the text retrieved for it, "" when it has none
  Replies,         \* what the model may answer to the three transform prompts
  Requests         \* the requests evaluations make

ASSUME RequestsAssumption ==
  \A req \in Requests : req.query \in DOMAIN Texts /\ req.top \in Nat \ {0}
ASSUME RepliesAssumption ==
  \A r \in Replies : /\ {r.hyde, r.broader} \subseteq DOMAIN Texts \cup {""}
                     /\ r.variants \in Seq(DOMAIN Texts \cup {""})

VARIABLES
  stack,           \* the flags of the deployment: [crag, graph]
  slots,           \* cache -> [state, loads]
  locks,           \* lock -> the thread that holds it, or Free
  loaded,          \* what the retriever read when it was built: [graph, clauses]
  job,             \* thread -> its job
  answer           \* the last answer to an evaluation, or NoAnswer

serveVars == <<stack, slots, locks, loaded, job, answer>>
vars == <<prepVars, serveVars>>

Slots == {"llm", "retriever", "embedder", "reranker"}
\* _get_llm and _get_retriever share one lock.
LockOf(slot) == IF slot \in {"llm", "retriever"} THEN "rt" ELSE slot
Free == "free"
ASSUME ThreadsAssumption == Free \notin Threads
NoAnswer == <<>>
Hangs == Outcome("hangs")

Review(t) == {i \in DOMAIN Findings[t] : Findings[t][i].review /\ ~Findings[t][i].unsupported}
Group(t, article) == {i \in Review(t) : Findings[t][i].article = article}
\* The clauses to review, in the order of their first finding.
ClausesToReview(t) ==
  FoldLeft(LAMBDA acc, i : IF i \in Review(t) /\ ~Contains(acc, Findings[t][i].article)
                           THEN Append(acc, Findings[t][i].article) ELSE acc,
           <<>>, [i \in DOMAIN Findings[t] |-> i])

NewJob(t) == [pc |-> "idle", want |-> "llm", todo |-> ClausesToReview(t),
              retriever |-> "none", context |-> FALSE, early |-> FALSE,
              notes |-> [i \in DOMAIN Findings[t] |-> <<>>]]

Init ==
  /\ PrepInit
  /\ stack \in [crag : BOOLEAN, graph : BOOLEAN]
  /\ slots = [s \in Slots |-> [state |-> "unset", loads |-> 0]]
  /\ locks = [l \in {"rt", "embedder", "reranker"} |-> Free]
  /\ loaded = [graph |-> NoGraph, clauses |-> <<>>]
  /\ job = [t \in Threads |-> NewJob(t)]
  /\ answer = NoAnswer

ClausesById(clauses) ==
  LET kept == Ingestable(clauses)
  IN [id \in IdsOf(kept) |-> CHOOSE c \in ToSet(kept) : c.id = id]

\* Bound: evaluations meet the corpora that at most one run of each command
\* prepares without a failure (a killed run included), jobs those of them
\* that were classified to the end and not contextualized, or whose contextual
\* file is torn; what more runs and failures leave is checked for the
\* preparation alone.
Settled == /\ ~Running /\ classifier.runs = 1 /\ contexts.runs <= 1
           /\ file.state = "whole" /\ DOMAIN rows # {}
Classified == /\ contexts.runs = 0 \/ (contexts.state = "torn" /\ stack.graph)
              /\ \A i \in DOMAIN Chunks :
                   \A c \in ToSet(Chunks[i]) : c.complete => c.id \in IdsOf(file.clauses)
Quiet == failures = 0 /\ answer = NoAnswer /\ \A t \in Threads : job[t].pc = "idle"

(***************************************************************************)
(* The caches.  A thread that wants one goes on at once when it is filled, *)
(* and otherwise takes the lock, looks again, and fills it.                *)
(***************************************************************************)
Filled(slot) == slots[slot].state # "unset"

\* Where a thread goes once the cache it wanted holds `state`.
After(j, state) ==
  CASE j.want = "llm" ->
         IF state = "none" THEN [j EXCEPT !.pc = "done"]
         ELSE [j EXCEPT !.pc = "check", !.want = "retriever"]
    [] j.want = "retriever" ->
         IF state = "none" THEN [j EXCEPT !.pc = "own_retriever"]
         ELSE [j EXCEPT !.pc = "clause", !.retriever = "shared"]
    [] j.want = "embedder" ->
         IF state = "none" THEN [j EXCEPT !.pc = "advise", !.context = FALSE]
         ELSE [j EXCEPT !.pc = "check", !.want = "reranker"]
    [] j.want = "reranker" ->
         IF state = "none" THEN [j EXCEPT !.pc = "advise", !.context = FALSE]
         ELSE [j EXCEPT !.pc = "retrieve", !.early = @ \/ state = "published"]

Move(t, j) == job' = [job EXCEPT ![t] = j]

Check(t) ==
  /\ job[t].pc = "check"
  /\ Move(t, IF Filled(job[t].want) THEN After(job[t], slots[job[t].want].state)
             ELSE [job[t] EXCEPT !.pc = "wait"])
  /\ UNCHANGED <<prepVars, stack, slots, locks, loaded, answer>>

Enter_NoSecondLook(t) ==    \* mutant: the cache is not looked at again
  /\ job[t].pc = "wait" /\ locks[LockOf(job[t].want)] = Free
  /\ Move(t, [job[t] EXCEPT !.pc = "build"])
  /\ locks' = [locks EXCEPT ![LockOf(job[t].want)] = t]
  /\ UNCHANGED <<prepVars, stack, slots, loaded, answer>>

\* Inside the lock the cache is looked at again.
Enter(t) ==
  LET slot == job[t].want
  IN /\ job[t].pc = "wait" /\ locks[LockOf(slot)] = Free
     /\ IF Filled(slot)
        THEN /\ Move(t, After(job[t], slots[slot].state))
             /\ UNCHANGED locks
        ELSE /\ Move(t, [job[t] EXCEPT !.pc = "build"])
             /\ locks' = [locks EXCEPT ![LockOf(slot)] = t]
  /\ UNCHANGED <<prepVars, stack, slots, loaded, answer>>

Fill(slot, state) ==
  slots' = [slots EXCEPT ![slot] = [state |-> state, loads |-> @.loads + 1]]
Release(t) == locks' = [locks EXCEPT ![LockOf(job[t].want)] = Free]

\* A provider that is named needs no key until it is called.
resolve_provider(env) ==
  IF env.provider = "agentrouter" \/ (env.provider = "auto" /\ env.key)
  THEN "agentrouter" ELSE "none"
LlmEnvs == [enabled : BOOLEAN, provider : {"agentrouter", "auto", "groq"}, key : BOOLEAN]
LlmOf(env) == IF ~env.enabled \/ resolve_provider(env) = "none" THEN "none"
              ELSE IF env.key THEN "ready" ELSE "keyless"

\* Whether a call may answer: without a key it raises, and any call may fail
\* or answer nothing.
agentrouter_chat(state) == IF state = "ready" THEN BOOLEAN ELSE {FALSE}

\* What the transforms may get, who take every failure for no answer.
_complete(state) ==
  {r \in Replies : TRUE \in agentrouter_chat(state)
                     \/ (r.hyde = "" /\ r.broader = "" /\ r.variants = <<>>)}

\* _build_llm: off without a provider; either way the answer is cached.
BuildLlm(t) ==
  /\ job[t].pc = "build" /\ job[t].want = "llm"
  /\ \E state \in {LlmOf(env) : env \in LlmEnvs} :
       /\ Fill("llm", state)
       /\ Move(t, After(job[t], state))
  /\ Release(t)
  /\ UNCHANGED <<prepVars, stack, loaded, answer>>

\* The factory reads the graph and the clauses file, when the graph layer
\* is on; a file it cannot read leaves the process without a retriever.
Readable == ~stack.graph \/ (graph # NoGraph /\ PreferredReadable)
BuildRetriever(t) ==
  /\ job[t].pc = "build" /\ job[t].want = "retriever"
  /\ LET state == IF Readable THEN "ready" ELSE "none"
     IN Fill("retriever", state) /\ Move(t, After(job[t], state))
  /\ loaded' = IF Readable
               THEN [graph |-> graph, clauses |-> ClausesById(PreferredClauses)]
               ELSE loaded
  /\ Release(t)
  /\ UNCHANGED <<prepVars, stack, answer>>

\* A run that was given no retriever tries the factory once more, for
\* itself alone.
OwnRetriever(t) ==
  /\ job[t].pc = "own_retriever"
  /\ Move(t, [job[t] EXCEPT !.pc = "clause",
                            !.retriever = IF Readable THEN "own" ELSE "none"])
  /\ loaded' = IF Readable
               THEN [graph |-> graph, clauses |-> ClausesById(PreferredClauses)]
               ELSE loaded
  /\ UNCHANGED <<prepVars, stack, slots, locks, answer>>

LoadEmbedder(t) ==
  /\ job[t].pc = "build" /\ job[t].want = "embedder"
  /\ Fill("embedder", "ready")
  /\ Move(t, After(job[t], "ready"))
  /\ Release(t)
  /\ UNCHANGED <<prepVars, stack, loaded, answer>>

\* The model is assigned first and, on a GPU, converted afterwards.
PublishReranker(t) ==
  /\ job[t].pc = "build" /\ job[t].want = "reranker" /\ ~Filled("reranker")
  /\ Fill("reranker", "published")
  /\ UNCHANGED <<prepVars, stack, locks, loaded, job, answer>>

FinishReranker(t) ==
  /\ job[t].pc = "build" /\ job[t].want = "reranker" /\ Filled("reranker")
  /\ slots' = [slots EXCEPT !["reranker"].state = "ready"]
  /\ Move(t, After(job[t], "ready"))
  /\ Release(t)
  /\ UNCHANGED <<prepVars, stack, loaded, answer>>

\* A model that cannot be loaded raises: the lock is left, the cache stays
\* empty, and the clause goes on without context.
LoadFails(t) ==
  /\ job[t].pc = "build" /\ job[t].want \in {"embedder", "reranker"}
  /\ ~Filled(job[t].want)
  /\ failures < MaxFailures
  /\ failures' = failures + 1
  /\ Move(t, After(job[t], "none"))
  /\ Release(t)
  /\ UNCHANGED <<file, classifier, contexts, rows, graph, stack, slots, loaded, answer>>

(***************************************************************************)
(* The pass                                                                *)
(***************************************************************************)
StartJob(t) ==
  /\ job[t].pc = "idle" /\ answer = NoAnswer
  /\ Settled /\ Classified /\ (Quiet \/ \E u \in Threads : job[u].pc # "idle")
  /\ Move(t, [job[t] EXCEPT !.pc = "check"])
  /\ UNCHANGED <<prepVars, stack, slots, locks, loaded, answer>>

\* The next clause to review; without a retriever, or a text to retrieve
\* for, the model is asked without context.
NextClause(t) ==
  /\ job[t].pc = "clause"
  /\ Move(t, CASE job[t].todo = <<>> -> [job[t] EXCEPT !.pc = "done"]
               [] job[t].todo # <<>> /\ (job[t].retriever = "none"
                                          \/ RuleText[Head(job[t].todo)] = "") ->
                    [job[t] EXCEPT !.pc = "advise", !.context = FALSE]
               [] OTHER -> [job[t] EXCEPT !.pc = "check", !.want = "embedder"])
  /\ UNCHANGED <<prepVars, stack, slots, locks, loaded, answer>>

AdviceRequest(article) ==
  [query |-> RuleText[article], top |-> 2, part |-> "any", rule |-> "any"]

RetrieveContext(t) ==
  /\ job[t].pc = "retrieve"
  /\ \E reply \in _complete(slots["llm"].state) :
       Move(t, [job[t] EXCEPT !.pc = "advise",
                  !.context = Retrieve(stack, rows, loaded.graph, loaded.clauses,
                                       AdviceRequest(Head(job[t].todo)), reply).hits
                                \notin {Raised, <<>>}])
  /\ UNCHANGED <<prepVars, stack, slots, locks, loaded, answer>>

\* One call for the clause.  Its note goes to every finding of the clause;
\* a call that fails or answers nothing leaves them as they are.
Advise(t) ==
  /\ job[t].pc = "advise"
  /\ \E answered \in agentrouter_chat(slots["llm"].state) :
       LET article == Head(job[t].todo)
           noted == [i \in DOMAIN Findings[t] |->
                       IF answered /\ i \in Group(t, article)
                       THEN Append(job[t].notes[i], article) ELSE job[t].notes[i]]
       IN Move(t, [job[t] EXCEPT !.pc = "clause", !.todo = Tail(@), !.notes = noted])
  /\ UNCHANGED <<prepVars, stack, slots, locks, loaded, answer>>

(***************************************************************************)
(* Evaluations                                                             *)
(***************************************************************************)
Answered(via, req, reply, result) ==
  answer' = [via |-> via, req |-> req, reply |-> reply, result |-> result,
             plain |-> hybrid_retrieve(rows, req.query, req.top, req)]

Ask ==
  /\ Quiet /\ Settled /\ Readable
  /\ \E req \in Requests, reply \in Replies :
       Answered("stack", req, reply,
                Retrieve(stack, rows, graph, ClausesById(PreferredClauses), req, reply))
  /\ UNCHANGED <<prepVars, stack, slots, locks, loaded, job>>

NoHits(outcome) == [hits |-> outcome, tried |-> <<>>, seed |-> <<>>, pool |-> <<>>]

\* The audit of a Qdrant collection.  Its first call takes the client's
\* lock to look at the collection and, unless a client was put in place,
\* takes it again to make one.  A collection that is empty, or whose layout
\* it does not know, is refused.
AskQdrant ==
  /\ Quiet /\ Settled
  /\ \E req \in Requests, clientInPlace, known \in BOOLEAN :
       \E reply \in {CHOOSE r \in Replies : TRUE} :
         Answered("qdrant", req, reply,
                  CASE ~clientInPlace -> NoHits(Hangs)
                    [] clientInPlace /\ ~known -> NoHits(Raised)
                    [] OTHER -> QdrantRetrieve(rows, req))
  /\ UNCHANGED <<prepVars, stack, slots, locks, loaded, job>>

Forget ==
  /\ answer # NoAnswer
  /\ answer' = NoAnswer
  /\ UNCHANGED <<prepVars, stack, slots, locks, loaded, job>>

\* Bound: the corpus is prepared before the jobs of the process start.
PrepareCorpus ==
  /\ Prepare /\ answer = NoAnswer
  /\ \A t \in Threads : job[t].pc = "idle"
  /\ UNCHANGED serveVars

Step(t) == \/ StartJob(t) \/ Check(t) \/ Enter(t) \/ BuildLlm(t) \/ BuildRetriever(t)
           \/ OwnRetriever(t) \/ LoadEmbedder(t) \/ PublishReranker(t)
           \/ FinishReranker(t) \/ LoadFails(t) \/ NextClause(t)
           \/ RetrieveContext(t) \/ Advise(t)

Next == \/ PrepareCorpus \/ Ask \/ AskQdrant \/ Forget
        \/ \E t \in Threads : Step(t)

Spec == Init /\ [][Next]_vars

(***************************************************************************)
(* Properties                                                              *)
(***************************************************************************)
Returned == {i \in DOMAIN answer.result.hits : answer.result.hits # Raised
                                                /\ answer.result.hits # Hangs}
HitSet == {answer.result.hits[i] : i \in Returned}

\* Every hit of an answer is accounted for.  It meets the filters of the
\* request, whichever leg, variant of the query or edge of the graph
\* brought it; and its provenance is a path of the graph: an exception
\* comes with a clause of the seed it is an exception to, a clause of an
\* element is linked to an element the query names.
HitsAreAccountedFor ==
  answer # NoAnswer => \A h \in HitSet :
    /\ Matches(h, answer.req)
    /\ h.from = "vector" => h.id \in DOMAIN rows
    /\ h.from = "exception_expansion" =>
         \E base \in ToSet(answer.result.seed) : Contains(ExceptionsOf(graph, base), h.id)
    /\ h.from = "graph_element" =>
         \E e \in _extract_elements(answer.req.query) : explain_link(graph, h.id, e) # "none"

\* An exception is not lost by its wording (graph_retriever.py 10-13): when
\* a clause is retrieved, each exception to it that the request's filters
\* admit and the corpus holds is put before the cross-encoder, or else the
\* pool is full.
ExceptionTravelsWithItsClause ==
  answer # NoAnswer => \A base \in ToSet(answer.result.seed) :
    \A exc \in ToSet(ExceptionsOf(graph, base)) :
      \/ Contains(answer.result.pool, exc)
      \/ Len(answer.result.pool) >= PoolK
      \/ ~PassesFilters(ClausesById(PreferredClauses), exc, answer.req)

\* The corrective loop costs nothing it could have kept: when the model
\* answers none of its prompts the answer is the plain one, and an answer
\* never has a worse first clause for the query than the plain one has,
\* unless it was taken from a hypothetical text.
CorrectionNeverCosts ==
  (answer # NoAnswer /\ stack = [crag |-> TRUE, graph |-> FALSE]
     /\ answer.via = "stack" /\ answer.result.hits # Raised) =>
    LET hits == answer.result.hits
        reply == answer.reply
    IN /\ reply.hyde = "" /\ reply.broader = "" /\ reply.variants = <<>> =>
            hits = answer.plain
       /\ answer.plain # <<>> =>
            \/ answer.result.tried # <<>> /\ Last(answer.result.tried) = "hyde"
            \/ hits # <<>> /\ hits[1].score >= answer.plain[1].score

\* However the threads of the process meet, each cache is filled once, and
\* nobody keeps a lock beyond the filling.
FilledOnce ==
  /\ \A s \in Slots : slots[s].loads <= 1
  /\ \A l \in DOMAIN locks : locks[l] # Free =>
       job[locks[l]].pc = "build" /\ LockOf(job[locks[l]].want) = l

\* What the code does not keep.  A transform "must never crash retrieval"
\* (query_transforms.py): a reply without a word does.
TransformNeverRaises == answer # NoAnswer => answer.result.hits # Raised
\* Everything of the Qdrant class is made "on first use" (its docstring):
\* the first use never returns.
FirstUseReturns == answer # NoAnswer => answer.result.hits # Hangs
\* Nobody scores with a model that is still being converted.
ModelIsReadyWhenUsed == \A t \in Threads : ~job[t].early
\* The query's own best clause survives a hypothetical text: reranked and
\* judged against that text, it may not.
HypotheticalNeverCosts ==
  (answer # NoAnswer /\ stack = [crag |-> TRUE, graph |-> FALSE] /\ answer.via = "stack"
     /\ answer.result.hits # Raised /\ answer.plain # <<>>) =>
    answer.plain[1].id \in {h.id : h \in HitSet}
=============================================================================
