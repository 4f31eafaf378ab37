--------------------------- MODULE RegulationGraph ---------------------------
(***************************************************************************)
(* The regulation graph and the link layer over it                         *)
(* (compliance-engine/rag/build_regulation_graph.py and                    *)
(* services/graph_linker.py).                                              *)
(*                                                                         *)
(* A classified clause is a record                                         *)
(*   id      the article id, [core |-> <<4, 5, 2>>, sfx |-> "a"]           *)
(*   part, rule, skip, occ   mabhas_part, rule_type, skip_category ("none" *)
(*           when it is null), applicable_occupancies                      *)
(*   ents    its entities, [subject, object, property, relation, applies]: *)
(*           subject and object the keywords their text contains, {} when  *)
(*           missing; applies_to_article, NoId when it is missing          *)
(*   cites   the article ids its text cites after the printed label        *)
(*   colon, heading   the phrase before a definition's colon, its heading  *)
(*   words   the phrases its normalized text contains                      *)
(* The graph is a set of edges; a node is a pair of its kind and its key.  *)
(***************************************************************************)
EXTENDS Integers, Sequences, FiniteSets, SequencesExt

CONSTANTS
  ValidTerms,        \* the phrases _is_valid_term accepts (stop list excluded)
  ManualLinks,       \* exception_links.json: [base, exception, cited]
  IdOrder            \* the article ids in string order

ArticleIds == ToSet(IdOrder)
ASSUME IdOrderAssumption ==
  /\ IdOrder \in Seq(ArticleIds)
  /\ \A i, j \in DOMAIN IdOrder : IdOrder[i] = IdOrder[j] => i = j
ASSUME ManualLinksAssumption == IsFiniteSet(ManualLinks)

NoId == [core |-> <<>>, sfx |-> ""]

\* A set sorted and a sequence filtered (SetToSortSeq and SelectSeq, in a form
\* that proofs can cite lemmas about): an element has the place that the
\* number of those before it gives.
Ranked(S, R) ==
  [n \in 1 .. Cardinality(S) |->
     CHOOSE a \in S : Cardinality({b \in S : <<b, a>> \in R}) = n - 1]
Sorted(S, Precedes(_, _)) == Ranked(S, {p \in S \X S : Precedes(p[1], p[2])})

InOrder(K) == Ranked(K, {p \in K \X K : p[1] < p[2]})
At(seq, K) == [n \in 1 .. Cardinality(K) |-> seq[InOrder(K)[n]]]
Keep(seq, Test(_)) == At(seq, {i \in DOMAIN seq : Test(seq[i])})
Take(seq, k) == [i \in 1 .. (IF Len(seq) < k THEN Len(seq) ELSE k) |-> seq[i]]
FirstOfEach(seq) ==
  At(seq, {i \in DOMAIN seq : \A j \in 1 .. i - 1 : seq[j] # seq[i]})

Before(a, b) ==
  \E i, j \in DOMAIN IdOrder : IdOrder[i] = a /\ IdOrder[j] = b /\ i < j
InIdOrder(ids) == Sorted(ids, Before)

\* The first keyword of the table that an entity's text contains decides.
\* The tables are abridged to a row for each turn they take.
ELEMENT_KEYWORDS ==
  << <<"light well", "light_well">>, <<"courtyard", "courtyard">>, <<"glass", "window">>,
     <<"opening", "window">>, <<"door", "door">>, <<"entrance", "entrance">>,
     <<"stair", "stair">>, <<"ramp", "ramp">>, <<"landing", "landing">>,
     <<"turning", "parking">>, <<"corridor", "corridor">>, <<"exit", "door">>,
     <<"kitchen", "kitchen">>, <<"sanitary", "bathroom">>, <<"bedroom", "bedroom">>,
     <<"living", "living_room">>, <<"balcony", "balcony">>, <<"open space", "courtyard">>,
     <<"storage", "storage">>, <<"basement", "basement">>, <<"parking", "parking">>,
     <<"elevator", "elevator">>, <<"roof", "roof">>, <<"unit", "dwelling_unit">>,
     <<"room", "bedroom">>, <<"building", "building">> >>

PROPERTY_ALIASES ==
  [area |-> {"area", "floor area", "minimum area"}, free_area |-> {"free floor area"},
   area_ratio |-> {"area ratio", "ratio to floor area"}, width |-> {"width", "minimum width"},
   clear_width |-> {"clear width", "usable width"}, length |-> {"length"}, depth |-> {"depth"},
   height |-> {"height", "installation height"}, clear_height |-> {"clear height", "headroom height"},
   slope |-> {"slope"}, distance |-> {"distance"}, count |-> {"count", "quantity"},
   percentage |-> {"opening percentage"}, lighting_area |-> {"required natural light area"},
   ventilation_area |-> {"minimum ventilation opening area"},
   level_difference |-> {"entrance floor level height difference"}]

map_element(raw) ==
  LET found == SelectSeq(ELEMENT_KEYWORDS, LAMBDA row : row[1] \in raw)
  IN IF found = <<>> THEN "none" ELSE found[1][2]
map_property(raw) ==
  IF \E p \in DOMAIN PROPERTY_ALIASES : raw \in PROPERTY_ALIASES[p]
  THEN CHOOSE p \in DOMAIN PROPERTY_ALIASES : raw \in PROPERTY_ALIASES[p] ELSE "none"

\* The colon phrase wins over the heading, which may name only the section.
extract_term(c) ==
  CASE c.colon \in ValidTerms   -> c.colon
    [] c.colon \notin ValidTerms /\ c.heading \in ValidTerms -> c.heading
    [] OTHER -> "none"

parse_article_refs(c) ==
  {r \in ToSet(c.cites) : Len(r.core) >= 3 /\ r # c.id}

(***************************************************************************)
(* Resolving a cited id against the corpus: right-to-left extraction may   *)
(* have reversed its segments, and a section may stand for its clauses.    *)
(***************************************************************************)
ReverseSegments(ref) == [ref EXCEPT !.core = Reverse(@)]

InSection(id, rev) ==
  \/ /\ id.sfx = rev.sfx
     /\ Len(id.core) > Len(rev.core)
     /\ IsSuffix(rev.core, id.core)
  \/ rev.sfx = "" /\ id.sfx # "" /\ id.core = rev.core

resolve_reference(ref, ids, self) ==
  LET others == ids \ {self}
      rev    == ReverseSegments(ref)
      family == {i \in others : InSection(i, rev)}
      parent == [core |-> Front(ref.core), sfx |-> ""]
      match(found, method) == [bases |-> found, method |-> method]
  IN CASE ref \in others -> match({ref}, "exact")
       [] ref \notin others /\ rev \in others -> match({rev}, "reversed")
       [] {ref, rev} \cap others = {} /\ family # {} ->
            match(family, "section_family")
       [] OTHER ->
            IF Len(parent.core) < 2 THEN match({}, "unresolved")
            ELSE IF parent \in others THEN match({parent}, "parent_section")
            ELSE IF ReverseSegments(parent) \in others
                 THEN match({ReverseSegments(parent)}, "parent_section")
            ELSE match({}, "unresolved")

(***************************************************************************)
(* The builder                                                             *)
(***************************************************************************)
ClauseNode(id) == <<"clause", id>>
Edge(from, to, type, note) == [from |-> from, to |-> to, type |-> type, note |-> note]

Ingestable(clauses) == Keep(clauses, LAMBDA c : c.skip = "none")

OccupancyEdges(c) ==
  {Edge(ClauseNode(c.id), <<"occupancy", o>>, "APPLIES_TO_OCCUPANCY", "") : o \in c.occ}

ElementEdge(c, raw, type, note) ==
  IF map_element(raw) = "none" THEN {}
  ELSE {Edge(ClauseNode(c.id), <<"element", map_element(raw)>>, type, <<raw, note>>)}

NumericEdges(c) ==
  UNION {ElementEdge(c, e.object, "GOVERNS", "")
           \cup (IF map_property(e.property) = "none" THEN {}
                 ELSE {Edge(ClauseNode(c.id), <<"property", map_property(e.property)>>,
                            "CONSTRAINS_PROPERTY", e.property)})
         : e \in ToSet(c.ents)}

SpatialEdges(c) ==
  UNION {ElementEdge(c, e.subject, "GOVERNS", "")
           \cup ElementEdge(c, e.object, "RELATES", e.relation) : e \in ToSet(c.ents)}

DefinitionEdges(c) ==
  IF extract_term(c) = "none" THEN {}
  ELSE {Edge(ClauseNode(c.id), <<"term", extract_term(c)>>, "DEFINES", "")}

MetadataEdges(c) ==
  OccupancyEdges(c) \cup (CASE c.rule = "numeric"    -> NumericEdges(c)
                            [] c.rule = "spatial"    -> SpatialEdges(c)
                            [] c.rule = "definition" -> DefinitionEdges(c)
                            [] OTHER -> {})

meta_refs(c) == {e.applies : e \in ToSet(c.ents)} \ {NoId}

\* A manual entry overrides the resolver for the reference it names, be it
\* one of the entities' or one of the text's.
ExceptionEdges(c, ids) ==
  LET manual == {m \in ManualLinks : m.exception = c.id}
      cited  == (meta_refs(c) \cup parse_article_refs(c)) \ {m.cited : m \in manual}
      link(base, method) ==
        Edge(ClauseNode(base), ClauseNode(c.id), "HAS_EXCEPTION", method)
  IN {link(m.base, "manual") : m \in {x \in manual : x.base \in ids}}
       \cup (UNION {LET found == resolve_reference(r, ids, c.id)
                    IN {link(b, found.method) : b \in found.bases} : r \in cited})

\* The first clause that defines a term is the one that does not use it.
UsesTermEdges(kept) ==
  LET definers(term) == {i \in DOMAIN kept : kept[i].rule = "definition"
                                              /\ extract_term(kept[i]) = term}
      terms == {extract_term(kept[i]) : i \in {j \in DOMAIN kept :
                  kept[j].rule = "definition"}} \ {"none"}
      definer(term) == CHOOSE i \in definers(term) :
                         \A j \in definers(term) : i <= j
  IN {Edge(ClauseNode(kept[p[2]].id), <<"term", p[1]>>, "USES_TERM", "")
        : p \in {q \in terms \X DOMAIN kept :
                   q[1] \in kept[q[2]].words /\ q[2] # definer(q[1])}}

build_graph(clauses) ==
  LET kept == Ingestable(clauses)
      ids  == {kept[i].id : i \in DOMAIN kept}
      exceptions == {i \in DOMAIN kept : kept[i].rule = "exception"}
  IN [clauses |-> [i \in DOMAIN kept |-> kept[i].id],
      occ     |-> [id \in ids |->
                     (CHOOSE c \in ToSet(kept) : c.id = id).occ],
      edges   |-> (UNION {MetadataEdges(kept[i]) : i \in DOMAIN kept})
                    \cup (UNION {ExceptionEdges(kept[i], ids) : i \in exceptions})
                    \cup UsesTermEdges(kept)]

(***************************************************************************)
(* The linker                                                              *)
(***************************************************************************)
GovernedBy(g, element) ==
  {id \in ToSet(g.clauses) : \E e \in g.edges : /\ e.type = "GOVERNS"
                                                /\ e.from = ClauseNode(id)
                                                /\ e.to = <<"element", element>>}

IsExceptionTo(g, base, id) ==
  \E e \in g.edges : /\ e.type = "HAS_EXCEPTION"
                     /\ e.from = ClauseNode(base)
                     /\ e.to = ClauseNode(id)
\* In the order of the corpus, which is the order of the edges.
ExceptionsOf(g, base) == Keep(g.clauses, LAMBDA id : IsExceptionTo(g, base, id))

Residential == {"M-1", "M-2", "M-3", "M-4"}
OccupancyApplies(tags, occupancy) ==
  \/ occupancy = "none"
  \/ {"any", occupancy} \cap tags # {}
  \/ occupancy \in Residential /\ "all_residential" \in tags

Expand_FirstOnly(g, ids) ==    \* mutant: only the best clause is expanded
  IF ids = <<>> THEN ids
  ELSE ids \o Keep(ExceptionsOf(g, ids[1]), LAMBDA x : ~Contains(ids, x))

\* The ids without repetition, then the exceptions they do not hold yet: what
\* the first id brings, in the order of the corpus, then what the next brings.
expand_with_exceptions(g, ids) ==
  LET unique == FirstOfEach(ids)
      brings == {p \in (DOMAIN unique) \X (DOMAIN g.clauses) :
                   /\ IsExceptionTo(g, unique[p[1]], g.clauses[p[2]])
                   /\ ~Contains(ids, g.clauses[p[2]])}
      sooner(p, q) == p[1] < q[1] \/ (p[1] = q[1] /\ p[2] < q[2])
      brought == Sorted(brings, sooner)
  IN unique \o FirstOfEach([n \in DOMAIN brought |-> g.clauses[brought[n][2]]])

clauses_for_element(g, element, occupancy) ==
  LET applies(a) == OccupancyApplies(g.occ[a], occupancy)
      base == Keep(InIdOrder(GovernedBy(g, element)), applies)
  IN Keep(expand_with_exceptions(g, base),
          LAMBDA a : Contains(base, a) \/ applies(a))

\* How the graph links a clause to an element: directly, or as an exception.
explain_link(g, id, element) ==
  CASE id \in GovernedBy(g, element) -> "direct"
    [] /\ id \notin GovernedBy(g, element)
       /\ \E base \in GovernedBy(g, element) : Contains(ExceptionsOf(g, base), id)
         -> "via_exception"
    [] OTHER -> "none"

\* _clause_degree: how many edges leave the clause.
ClauseDegree(g, id) == Cardinality({e \in g.edges : e.from = ClauseNode(id)})
=============================================================================
