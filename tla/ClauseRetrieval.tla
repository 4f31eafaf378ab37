--------------------------- MODULE ClauseRetrieval ---------------------------
(***************************************************************************)
(* Retrieving clauses for a query (compliance-engine/rag): the dense and   *)
(* the lexical leg and their fusion (rag_retriever.py), the transforms a   *)
(* model makes of the query (query_transforms.py), the judgement of a      *)
(* result and the routing to a transform (retrieval_evaluator.py,          *)
(* query_router.py), the corrective loop (crag_retriever.py), the graph    *)
(* layer around it (graph_retriever.py) and the Qdrant leg.                *)
(*                                                                         *)
(* A text (a query, or what a model made of one) is a key of Texts: what   *)
(* it is near to, which words it has, what the cross-encoder gives each    *)
(* clause for it (in hundredths, after the sigmoid of the evaluator), and  *)
(* whether it is short.  A request is [query, top, part, rule], "any"      *)
(* where a filter is not given.                                            *)
(* A result is a sequence of hits [id, part, rule, score, from], or Raised.*)
(***************************************************************************)
EXTENDS RegulationGraph

CONSTANTS
  Texts,           \* text -> [near, words, score, short]
  Lexeme,          \* article id -> the words of its passage
  CandidateK,      \* the candidates of each leg (50)
  PoolK,           \* the graph layer's pool (20)
  EvalK            \* the floor of a judged result (5)

ASSUME TextsAssumption ==
  \A t \in DOMAIN Texts : /\ Texts[t].near \in Seq(ToSet(Texts[t].near))
                          /\ IsFiniteSet(Texts[t].words)
                          /\ Texts[t].score \in [ArticleIds -> Int]
ASSUME DepthsAssumption == {CandidateK, PoolK, EvalK} \subseteq Nat \ {0}

\* The outcome of a call that ends without a result.
Outcome(what) == <<[id |-> NoId, part |-> what, rule |-> what, score |-> 0, from |-> what]>>
Raised == Outcome("raised")
Failed(result) == result = Raised
HitIds(hits) == [i \in DOMAIN hits |-> hits[i].id]
FirstPlace(list, id) ==
  CHOOSE i \in DOMAIN list : list[i] = id /\ \A j \in 1 .. i - 1 : list[j] # id
AtLeast(a, b) == IF a < b THEN b ELSE a

(***************************************************************************)
(* The two legs over the table                                             *)
(***************************************************************************)
Matches(row, req) == /\ req.part \in {"any", row.part}
                     /\ req.rule \in {"any", row.rule}

Hit(row, score) == [id |-> row.id, part |-> row.part, rule |-> row.rule,
                    score |-> score, from |-> "vector"]

\* Filters hold in the query itself, before the limit.
dense_retrieve(rows, text, k, req) ==
  LET near == Keep(Texts[text].near,
                   LAMBDA id : id \in DOMAIN rows /\ Matches(rows[id], req))
  IN Take([i \in DOMAIN near |-> Hit(rows[near[i]], 0)], k)

\* Rows that share a word with the text, the most shared words first; a
\* text without a single word raises.
lexical_retrieve(rows, text, k, req) ==
  LET shared(id) == Cardinality(Texts[text].words \cap Lexeme[id])
      found  == {id \in DOMAIN rows : shared(id) > 0 /\ Matches(rows[id], req)}
      ranked == Sorted(found, LAMBDA a, b :
                  shared(a) > shared(b) \/ (shared(a) = shared(b) /\ Before(a, b)))
  IN IF Texts[text].words = {} THEN Raised
     ELSE Take([i \in DOMAIN ranked |-> Hit(rows[ranked[i]], shared(ranked[i]))], k)

\* Reciprocal rank fusion of the three lists there are at most, in units of
\* 10^-8; the first place of an id counts.
RrfK == 60
rrf_fuse(lists) ==
  LET ids == UNION {ToSet(lists[i]) : i \in DOMAIN lists}
      share(i, id) == IF i \in DOMAIN lists /\ Contains(lists[i], id)
                      THEN 100000000 \div (RrfK + FirstPlace(lists[i], id)) ELSE 0
  IN [id \in ids |-> share(1, id) + share(2, id) + share(3, id)]

ByScore(score) == Sorted(DOMAIN score,
  LAMBDA a, b : score[a] > score[b] \/ (score[a] = score[b] /\ Before(a, b)))

\* The first hit an id has in the lists stands for it.
Representative(lists, id) ==
  LET having == {i \in DOMAIN lists : Contains(HitIds(lists[i]), id)}
      list == lists[CHOOSE i \in having : \A k \in having : i <= k]
  IN list[FirstPlace(HitIds(list), id)]

Fuse(lists) ==
  LET fused == rrf_fuse([i \in DOMAIN lists |-> HitIds(lists[i])])
      order == ByScore(fused)
  IN [i \in DOMAIN order |->
        [Representative(lists, order[i]) EXCEPT !.score = fused[order[i]]]]

\* The cross-encoder's order of the candidates for a text.
Rerank(text, candidates, k) ==
  LET scored == [i \in DOMAIN candidates |->
                   [candidates[i] EXCEPT !.score = Texts[text].score[candidates[i].id]]]
  IN Take(Sorted(ToSet(scored), LAMBDA a, b :
            a.score > b.score \/ (a.score = b.score /\ Before(a.id, b.id))), k)

(***************************************************************************)
(* hybrid_retrieve, and the retrievals over several texts                  *)
(***************************************************************************)
FuseLegs(dense, lexical) ==
  IF Failed(lexical) THEN Raised ELSE Take(Fuse(<<dense, lexical>>), CandidateK)
FusedCandidates(rows, text, req) ==
  FuseLegs(dense_retrieve(rows, text, CandidateK, req),
           lexical_retrieve(rows, text, CandidateK, req))

\* Candidates of each text, fused across the texts, ordered for the original.
RerankFused(lists, original, k) ==
  IF \E i \in DOMAIN lists : Failed(lists[i]) THEN Raised
  ELSE Rerank(original, IF Len(lists) = 1 THEN lists[1] ELSE Fuse(lists), k)
RetrieveForAll(rows, texts, original, k, req) ==
  RerankFused([i \in DOMAIN texts |-> FusedCandidates(rows, texts[i], req)], original, k)

hybrid_retrieve(rows, text, k, req) == RetrieveForAll(rows, <<text>>, text, k, req)

(***************************************************************************)
(* What a model makes of a query: reply is what it would answer to each    *)
(* of the three prompts, "" when the call fails or answers nothing.        *)
(***************************************************************************)
hyde_transform(query, reply) == IF reply.hyde = "" THEN query ELSE reply.hyde
stepback_transform(query, reply) == IF reply.broader = "" THEN query ELSE reply.broader

Multi_VariantsOnly(query, reply) ==    \* mutant: the original only as a last resort
  LET fresh == Keep(reply.variants, LAMBDA v : v # query)
  IN IF fresh = <<>> THEN <<query>> ELSE Take(fresh, 2)

\* The original first, then at most two variants that differ from it.
multi_query_transform(query, reply) ==
  LET fresh == FirstOfEach(Keep(reply.variants, LAMBDA v : v \notin {query, ""}))
  IN <<query>> \o Take(fresh, 2)

\* The hypothetical text replaces the query, in the reranking too.
hyde_retrieve(rows, query, k, req, reply) ==
  hybrid_retrieve(rows, hyde_transform(query, reply), k, req)

Stepback(query, broader) == IF broader = query THEN <<query>> ELSE <<query, broader>>
stepback_retrieve(rows, query, k, req, reply) ==
  RetrieveForAll(rows, Stepback(query, stepback_transform(query, reply)), query, k, req)

multi_query_retrieve(rows, query, k, req, reply) ==
  RetrieveForAll(rows, multi_query_transform(query, reply), query, k, req)

Dispatch(name, rows, query, k, req, reply) ==
  CASE name = "hyde"        -> hyde_retrieve(rows, query, k, req, reply)
    [] name = "stepback"    -> stepback_retrieve(rows, query, k, req, reply)
    [] name = "multi_query" -> multi_query_retrieve(rows, query, k, req, reply)

(***************************************************************************)
(* The judgement of a result and the choice of a transform                 *)
(***************************************************************************)
Judgement(top, gap) ==
  CASE top >= 60 /\ gap >= 15 -> "HIGH"
    [] ~(top >= 60 /\ gap >= 15) /\ (top < 30 \/ gap < 3) -> "LOW"
    [] OTHER -> "MEDIUM"
evaluate_retrieval(hits) ==
  IF hits = <<>> THEN "LOW"
  ELSE Judgement(hits[1].score, hits[1].score - Last(Take(hits, 3)).score)

\* The vocabularies, a word or two for each key.
VOCAB ==
  [exception_keywords |-> {"exception", "exempt", "not applicable"},
   measurable_properties |-> {"area", "width", "height", "length", "depth", "distance",
                              "thickness", "slope", "dimension"},
   element_types |->
     [bedroom |-> {"bedroom"}, bathroom |-> {"bathroom", "toilet"}, kitchen |-> {"kitchen"},
      corridor |-> {"corridor"}, stair |-> {"stair"}, elevator |-> {"elevator"},
      parking |-> {"parking", "garage"}, balcony |-> {"balcony", "terrace"}, door |-> {"door"},
      window |-> {"window"}, living |-> {"living room"}, basement |-> {"basement"},
      roof |-> {"roof"}, ramp |-> {"ramp"}, exit |-> {"exit"}, wall |-> {"wall"}]]

Mentions(text, terms) == text.words \cap terms # {}
_matched_element_categories(text) ==
  {c \in DOMAIN VOCAB.element_types : Mentions(text, VOCAB.element_types[c])}

Route(primary, fallback) == [primary |-> primary, fallback |-> fallback]
route_query(query, confidence) ==
  LET text == Texts[query]
  IN IF confidence = "HIGH" THEN Route("none", "none")
     ELSE IF Mentions(text, VOCAB.exception_keywords) THEN Route("multi_query", "stepback")
     ELSE IF text.short /\ Mentions(text, VOCAB.measurable_properties) THEN Route("hyde", "multi_query")
     ELSE IF Cardinality(_matched_element_categories(text)) >= 2 THEN Route("multi_query", "stepback")
     ELSE IF confidence = "LOW" THEN Route("hyde", "multi_query")
     ELSE Route("none", "hyde")

(***************************************************************************)
(* The corrective loop.  An answer is [hits, tried]: the result, and the   *)
(* transforms it took.                                                     *)
(***************************************************************************)
\* The transforms are taken only as far as the judgements call for them.
CorrectedBy(route, initial, first, second, k) ==
  LET answer(hits, tried) ==
        [hits |-> IF Failed(hits) THEN Raised ELSE Take(hits, k), tried |-> tried]
  IN IF Failed(initial) THEN answer(Raised, <<>>)
     ELSE IF route.primary = "none" THEN answer(initial, <<>>)
     ELSE IF Failed(first) THEN answer(Raised, <<route.primary>>)
     ELSE IF evaluate_retrieval(first) # "LOW" THEN answer(first, <<route.primary>>)
     ELSE IF route.fallback \notin {"none", route.primary}
          THEN answer(second, <<route.primary, route.fallback>>)
     ELSE answer(initial, <<route.primary>>)

Corrected(route, initial, rows, req, k, reply) ==
  LET by(name) == Dispatch(name, rows, req.query, AtLeast(k, EvalK), req, reply)
  IN CorrectedBy(route, initial, by(route.primary), by(route.fallback), k)

Routed(initial, rows, req, k, reply) ==
  Corrected(route_query(req.query, IF Failed(initial) THEN "HIGH"
                                   ELSE evaluate_retrieval(initial)),
            initial, rows, req, k, reply)

Corrective(rows, req, k, reply) ==
  Routed(hybrid_retrieve(rows, req.query, AtLeast(k, EvalK), req), rows, req, k, reply)

(***************************************************************************)
(* The graph layer.  clauses is what load_clauses_by_id read, by id.       *)
(***************************************************************************)
QUERY_ELEMENT_VOCAB ==
  [kitchen |-> {"kitchen"}, bedroom |-> {"bedroom", "dormitory"}, living_room |-> {"living room"},
   bathroom |-> {"bathroom", "toilet"}, stair |-> {"stair"}, ramp |-> {"ramp"},
   landing |-> {"landing"}, corridor |-> {"corridor", "hallway"}, door |-> {"door"},
   window |-> {"window", "skylight"}, balcony |-> {"balcony", "terrace"},
   courtyard |-> {"courtyard"}, light_well |-> {"patio"}, basement |-> {"basement"},
   parking |-> {"parking", "garage"}, elevator |-> {"elevator", "lift"}, roof |-> {"roof"},
   storage |-> {"storage"}, entrance |-> {"entrance", "lobby"}, dwelling_unit |-> {"apartment"}]
_extract_elements(query) ==
  {e \in DOMAIN QUERY_ELEMENT_VOCAB : Mentions(Texts[query], QUERY_ELEMENT_VOCAB[e])}

PassesFilters_Known(clauses, id, req) == id \in DOMAIN clauses  \* mutant: no filter
PassesFilters(clauses, id, req) == id \in DOMAIN clauses /\ Matches(clauses[id], req)

GraphAnswer(base, g, clauses, req) ==
  LET seed     == HitIds(base.hits)
      passes(a) == PassesFilters(clauses, a, req)
      expanded == Keep(expand_with_exceptions(g, seed),
                       LAMBDA a : Contains(seed, a) \/ passes(a))
      governing == {a \in UNION {ToSet(clauses_for_element(g, e, "none"))
                                   : e \in _extract_elements(req.query)} : passes(a)}
      ranked   == Sorted(governing, LAMBDA a, b :
                    \/ ClauseDegree(g, a) > ClauseDegree(g, b)
                    \/ (ClauseDegree(g, a) = ClauseDegree(g, b) /\ Before(a, b)))
      fused    == rrf_fuse(<<seed, expanded, ranked>>)
      pool     == Take(ByScore(fused), AtLeast(PoolK, req.top))
      origin(a) == CASE Contains(seed, a) -> "vector"
                     [] ~Contains(seed, a) /\ Contains(expanded, a) -> "exception_expansion"
                     [] OTHER -> "graph_element"
      hit(a)   == IF Contains(seed, a)
                  THEN base.hits[CHOOSE i \in DOMAIN seed : seed[i] = a]
                  ELSE [id |-> a, part |-> clauses[a].part, rule |-> clauses[a].rule,
                        score |-> 0, from |-> origin(a)]
  IN [hits |-> Rerank(req.query, [i \in DOMAIN pool |-> hit(pool[i])], req.top),
      tried |-> base.tried, seed |-> seed, pool |-> pool]

(***************************************************************************)
(* build_default_retriever: the configured stack                           *)
(***************************************************************************)
Plain(rows, req, k) == [hits |-> hybrid_retrieve(rows, req.query, k, req), tried |-> <<>>]

Layered(stack, base, g, clauses, req) ==
  IF ~stack.graph \/ Failed(base.hits)
  THEN [hits |-> base.hits, tried |-> base.tried, seed |-> <<>>, pool |-> <<>>]
  ELSE GraphAnswer(base, g, clauses, req)

Retrieve(stack, rows, g, clauses, req, reply) ==
  LET k == IF stack.graph THEN AtLeast(req.top, EvalK) ELSE req.top
  IN Layered(stack, IF stack.crag THEN Corrective(rows, req, k, reply)
                                  ELSE Plain(rows, req, k), g, clauses, req)

\* The Qdrant leg: the nearest points, reranked (QdrantDefaultRetriever).
QdrantRetrieve(rows, req) ==
  [hits  |-> Rerank(req.query, dense_retrieve(rows, req.query, CandidateK, req), req.top),
   tried |-> <<>>, seed |-> <<>>, pool |-> <<>>]
=============================================================================
