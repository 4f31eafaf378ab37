------------------------- MODULE MCAdmissionControl -------------------------
(* A small instance of AdmissionControl: a process with one thread, for which   *)
(* time passes, and one with three.                                            *)
EXTENDS AdmissionControl, TLC

CONSTANTS t1, t2, t3

OneOrThree == {{t1}, {t1, t2, t3}}
FirstOnly == (1 :> 5) @@ (3 :> 0)
GeneralIsScarce == [c \in Categories |-> IF c = "heavy" THEN 2 ELSE 1]
GeneralIsSlow == [c \in Categories |-> IF c = "heavy" THEN 4 ELSE 2]
=============================================================================
