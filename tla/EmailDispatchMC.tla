---------------------------- MODULE EmailDispatchMC ----------------------------
(* Bounds of the model-checking runs of EmailDispatch. *)
EXTENDS EmailDispatch, TLC

\* Requests are interchangeable; used by the runs without liveness only.
Symmetry == Permutations(Requests)
================================================================================
