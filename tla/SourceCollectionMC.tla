--------------------------- MODULE SourceCollectionMC ---------------------------
(* Bounds of the model-checking runs of SourceCollection: the attempts are      *)
(* model values, without symmetry because the main run also checks liveness.    *)
EXTENDS SourceCollection
===============================================================================
