--------------------------- MODULE ExtractionRunsMC ---------------------------
(* Bounds of the model-checking run of ExtractionRuns: requests, inputs and    *)
(* pipelines are model values, without symmetry because of the liveness.       *)
EXTENDS ExtractionRuns
===============================================================================
