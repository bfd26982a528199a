------------------------- MODULE MCEvaluationPipeline -------------------------
(* Small instances of EvaluationPipeline for TLC: numbers, and NoKey a model value. *)
EXTENDS EvaluationPipeline
===============================================================================
