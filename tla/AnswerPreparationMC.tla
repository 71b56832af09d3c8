------------------------- MODULE AnswerPreparationMC -------------------------
(* Bounds of the model-checking runs of AnswerPreparation. *)
EXTENDS AnswerPreparation, TLC

\* Handlers, questions and profiles are interchangeable; not used for liveness.
Interchangeable ==
    Permutations(Requests) \cup Permutations(Fields) \cup Permutations(Profiles) \cup Permutations(Editions)

\* Bound: two questions are asked in all, whatever the contexts.
TwoAsked == Cardinality({<<c, k>> \in Contexts \X Keys : asked[c][k] > 0}) <= 2
==============================================================================
