------------------------- MODULE MCInferenceExecutor ------------------------
(* Small instances of InferenceExecutor.  The timeouts keep the order of the   *)
(* deployed ones: 90 seconds (inference) < 150 (Gunicorn) < 240 (startup).     *)
EXTENDS InferenceExecutor
=============================================================================
