--------------------------- MODULE MCAdvisoryPass ---------------------------
(***************************************************************************)
(* A corpus of six clauses in two chunks: a numeric kitchen clause and its *)
(* exception, cited with reversed segments; a spatial clause; a definition *)
(* that the second chunk repeats; a clause for apartments only; and an     *)
(* administrative one.  Seven queries meet the branches of the router and  *)
(* of the evaluator.                                                       *)
(***************************************************************************)
EXTENDS AdvisoryPass

Id(core) == [core |-> core, sfx |-> ""]
Kitchen == Id(<<4, 5, 2>>)
Waiver  == Id(<<4, 5, 9>>)
Door    == Id(<<4, 6, 1>>)
Term    == [core |-> <<4, 1, 1>>, sfx |-> "a"]
Flats   == Id(<<3, 2, 7>>)
Fees    == Id(<<4, 0, 1>>)

MCIdOrder == <<Flats, Fees, Term, Kitchen, Waiver, Door>>

Entity(subject, object, property) ==
  [subject |-> subject, object |-> object, property |-> property, relation |-> "opens_to",
   applies |-> NoId]
Clause(id, part, rule, occ, ents) ==
  [id |-> id, part |-> part, rule |-> rule, skip |-> "none", occ |-> occ, ents |-> ents,
   cites |-> <<>>, colon |-> "none", heading |-> "none", words |-> {}, complete |-> TRUE]

KitchenClause == Clause(Kitchen, "4", "numeric", {"M-4"},
                        <<Entity({}, {"kitchen"}, "minimum area")>>)
WaiverClause  == [Clause(Waiver, "4", "exception", {"any"},
                         <<[Entity({}, {}, "") EXCEPT !.applies = Flats]>>) EXCEPT
                    !.cites = <<Id(<<2, 5, 4>>), Id(<<4, 5>>)>>]
DoorClause    == [Clause(Door, "4", "spatial", {"all_residential"},
                         <<Entity({"entrance", "door"}, {"sanitary"}, "")>>) EXCEPT
                    !.words = {"patio"}]
TermClause    == [Clause(Term, "4", "definition", {"M-4"}, <<>>) EXCEPT
                    !.colon = "patio", !.words = {"patio"}]
FlatsClause   == Clause(Flats, "3", "numeric", {"M-2"},
                        <<Entity({}, {"kitchen"}, "clear height"),
                          Entity({}, {"pipe chase"}, "fire rating")>>)
FeesClause    == [Clause(Fees, "4", "numeric", {"M-4"}, <<>>) EXCEPT
                    !.skip = "administrative"]
TornClause    == [DoorClause EXCEPT !.id = Fees, !.complete = FALSE]

MCChunks == <<<<KitchenClause, TermClause, FeesClause>>,
              <<TermClause, WaiverClause, DoorClause, FlatsClause, TornClause>>>>

MCValidTerms == {"patio"}
MCManualLinks == {[base |-> Door, exception |-> Waiver, cited |-> Id(<<4, 6, 9>>)],
                  [base |-> NoId, exception |-> Waiver, cited |-> Id(<<7, 7, 7>>)]}

Ids == ToSet(MCIdOrder)
\* Scores by clause, in the order of MCIdOrder.
Scores(s) == [id \in Ids |-> s[CHOOSE i \in DOMAIN MCIdOrder : MCIdOrder[i] = id]]
Text(near, words, s) ==
  [near |-> near, words |-> words, score |-> Scores(s), short |-> FALSE]

MCLexeme == [id \in Ids |->
  CASE id = Kitchen -> {"kitchen", "area"} [] id = Waiver -> {"waiver"}
    [] id = Door -> {"door", "bathroom"}   [] id = Term -> {"patio"}
    [] id = Flats -> {"kitchen", "height"} [] id = Fees -> {"fee"}]

AllNear == <<Kitchen, Term, Door, Flats, Fees, Waiver>>
MCTexts ==
  LET clear   == Text(AllNear, {"kitchen", "area"}, <<30, 1, 5, 90, 2, 10>>)
      tied    == Text(AllNear, {"door", "bathroom"}, <<50, 1, 50, 51, 49, 50>>)
      medium  == Text(AllNear, {"door"}, <<20, 1, 45, 40, 15, 50>>)
      weak    == Text(<<Term, Door, Kitchen, Flats, Waiver>>, {"patio"}, <<5, 1, 20, 18, 25, 10>>)
      other   == Text(<<Waiver, Door, Flats, Term, Kitchen>>, {"waiver", "door"},
                      <<12, 1, 10, 30, 95, 60>>)
  IN [q \in {"clear"} |-> clear]
       @@ [q \in {"exception"} |-> [medium EXCEPT !.words = {"door", "exempt"}]]
       @@ [q \in {"short"} |-> [weak EXCEPT !.short = TRUE, !.words = {"patio", "width"}]]
       @@ [q \in {"two"} |-> tied]
       @@ [q \in {"vague"} |-> weak]
       @@ [q \in {"medium"} |-> medium]
       @@ [q \in {"hypothetical"} |-> other]
       @@ [q \in {"broader"} |-> other]
       @@ [q \in {"variant"} |-> [other EXCEPT !.words = {"waiver"}, !.near = <<Waiver, Flats, Kitchen, Term, Door>>]]
       @@ [q \in {"wordless"} |-> [weak EXCEPT !.words = {}]]

Reply(h, b, v) == [hyde |-> h, broader |-> b, variants |-> v]
MCReplies == {Reply("", "", <<>>),
              Reply("hypothetical", "broader", <<"variant", "variant", "broader">>),
              Reply("vague", "broader", <<"vague">>),
              Reply("wordless", "wordless", <<"wordless">>)}

Request(q, top, part, rule) == [query |-> q, top |-> top, part |-> part, rule |-> rule]
MCRequests ==
  {Request(q, 2, "any", "any") : q \in {"clear", "exception", "short", "two", "vague", "medium"}}
    \cup {Request(q, 2, part, rule) : q \in {"clear", "exception", "two"},
            part \in {"any", "4"}, rule \in {"any", "numeric"}}
    \cup {Request("clear", 3, "any", "any"), Request("short", 3, "3", "exception")}

MCScopes == {{"M-4", "all_residential", "any"}, {"M-2", "M-4", "any"}}

Finding(article, review, unsupported) ==
  [article |-> article, review |-> review, unsupported |-> unsupported]
MCFindings ==
  [t \in {"t1"} |-> <<Finding(Kitchen, TRUE, FALSE), Finding(Kitchen, FALSE, FALSE),
                      Finding(Door, TRUE, FALSE), Finding(Kitchen, TRUE, FALSE)>>]
    @@ [t \in {"t2"} |-> <<Finding(Waiver, TRUE, FALSE), Finding(Door, TRUE, TRUE)>>]
MCThreads == {"t1", "t2"}
MCRuleText == [id \in Ids |-> CASE id = Kitchen -> "clear" [] id = Waiver -> "vague"
                                [] OTHER -> ""]
=============================================================================
