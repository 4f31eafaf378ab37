---------------------------- MODULE MCLocalJobs -----------------------------
(* A small instance of LocalJobs: one process without a broker and two jobs,   *)
(* and two API processes with a worker, one job and more faults.               *)
EXTENDS LocalJobs

CONSTANTS a1, a2, w1, j1, j2

OneProcessOrThree ==
    {[apis |-> {a1}, workers |-> {}, jobs |-> {j1, j2}, faults |-> 2],
     [apis |-> {a1, a2}, workers |-> {w1}, jobs |-> {j1}, faults |-> 3]}
=============================================================================
