--------------------------- MODULE MCReviewQueue ---------------------------
(***************************************************************************)
(* A small instance of the review queue: one plan whose result holds two   *)
(* open findings of one clause and one that is decided already, two        *)
(* threads of one process.                                                 *)
(***************************************************************************)
EXTENDS ReviewQueue

CONSTANTS t1, t2, p1, daylight, lift, e1, e2, e3

MCHome == [t \in Threads |-> p1]
MCFindings == {[clause |-> daylight, element |-> e1, n |-> 1, verdict |-> "NEEDS_REVIEW"],
               [clause |-> daylight, element |-> e2, n |-> 1, verdict |-> "NEEDS_REVIEW"],
               [clause |-> daylight, element |-> e2, n |-> 2, verdict |-> "NEEDS_REVIEW"],
               [clause |-> lift, element |-> e3, n |-> 1, verdict |-> "FAIL"]}
MCMaxCalls == [t \in Threads |-> IF t = t1 THEN 3 ELSE 2]
MCResultOf == [p \in Plans |-> Findings]
=============================================================================
