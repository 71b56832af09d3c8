---------------------------- MODULE AssessmentReview ----------------------------
(***************************************************************************)
(* What the server makes of the model's answer about one requirement of a  *)
(* job before it is stored (backend/app/ai_recommendations: citations.py,  *)
(* service.py validate_assessment, evidence_rules.py, claim_scope.py).     *)
(*                                                                         *)
(* The answer claims an outcome for the requirement and for each of its    *)
(* conditions and cites a passage of the profile.  What the rules look for *)
(* in the texts is data: an answer carries the set of rules that object to *)
(* it ("doubts"), whether its passage denies the requirement, and how the  *)
(* dates of an undergraduate course compare.  The model is the order of    *)
(* the rules, what each of them may change, and the errors that discard    *)
(* the whole answer.                                                       *)
(***************************************************************************)
EXTENDS Integers, Sequences, SequencesExt

CONSTANT Answers \* answers about one requirement; records as described below

VARIABLES
    review, \* "answered", "resolved", "validated", "stored" or "rejected"
    answer, \* what the model said
    held    \* what is held of it: an outcome, a passage, an outcome per condition

reviewVars == <<review, answer, held>>

Outcomes == {"supported", "gap", "unknown"}
Categories == {"skill", "responsibility", "education", "experience", "work_constraint", "other"}
Operators == {"atomic", "all_of", "any_of", "unspecified"}

(* Citations of a requirement: no passage, a part or the whole of a field of *)
(* the profile, or a source that was not issued for it.  Those of a condition *)
(* are inside the passage of the requirement, or elsewhere in the profile.    *)
Cited == {"none", "part", "whole", "foreign"}
Passages == {"none", "displayed", "elsewhere", "foreign"}

(* An answer: [category, claim, operator, cited, denies, doubts, timing,    *)
(* checks], each check: [claim, passage, denies, doubts, timing].           *)
AnswerShape(a) ==
    /\ a.category \in Categories /\ a.claim \in Outcomes /\ a.operator \in Operators
    /\ a.cited \in Cited /\ a.denies \in BOOLEAN
    /\ a.timing \in {"none", "course", "explicit"}
    /\ 1 \in DOMAIN a.checks
    /\ a.operator = "atomic" => Len(a.checks) = 1
    /\ a.operator \in {"all_of", "any_of"} => Len(a.checks) >= 2
    /\ \A i \in DOMAIN a.checks :
          /\ a.checks[i].claim \in Outcomes /\ a.checks[i].passage \in Passages
          /\ a.checks[i].denies => a.checks[i].passage # "none"
    /\ a.denies => a.cited # "none"

(* The rules, and the categories each of them looks at. *)

Applies == [activity     |-> Categories,
            scope        |-> {"skill", "experience", "responsibility"},
            subject      |-> {"skill"},
            constraint   |-> {"work_constraint"},
            years        |-> {"experience"},
            degree       |-> {"education"},
            construction |-> Categories,
            compound     |-> {"skill"}]

Doubted(rule, category, doubts) == rule \in doubts /\ category \in Applies[rule]

AnswerInit ==
    /\ review = "answered"
    /\ answer \in {a \in Answers : AnswerShape(a)}
    /\ held = [outcome |-> answer.claim, cited |-> answer.cited # "none",
               checks |-> [i \in DOMAIN answer.checks |-> answer.checks[i].claim]]
-------------------------------------------------------------------------------
(* Resolving the citations: resolve_assessment *)

Shown(i) == answer.cited # "none" /\ answer.checks[i].passage = "displayed"

Unproven(i) == answer.checks[i].claim = "gap" /\ ~answer.checks[i].denies

\* A condition keeps its claim if the passage displayed for the whole
\* requirement shows it, and denies it if it is claimed to be missing.
ResolvedCheck(i) ==
    IF Shown(i) /\ "activity" \notin answer.checks[i].doubts /\ ~Unproven(i)
    THEN answer.checks[i].claim
    ELSE "unknown"

\* What the conditions together establish.
Aggregate(operator, outcomes) ==
    LET values == {outcomes[i] : i \in DOMAIN outcomes}
    IN  CASE operator \in {"atomic", "all_of"} ->
               IF values = {"supported"} THEN "supported"
               ELSE IF "gap" \in values THEN "gap" ELSE "unknown"
          [] operator = "any_of" ->
               IF "supported" \in values THEN "supported"
               ELSE IF values = {"gap"} THEN "gap" ELSE "unknown"
          [] OTHER -> "unknown"

ResolvedOutcome(checks) ==
    LET unproven == \E i \in DOMAIN checks : Unproven(i)
        doubted == \E rule \in {"scope", "activity"} :
                      Doubted(rule, answer.category, answer.doubts)
        first == IF \/ unproven /\ answer.claim = "gap"
                    \/ doubted /\ answer.claim = "supported"
                 THEN "unknown" ELSE answer.claim
    IN  IF first \in {"supported", "gap"} /\ Aggregate(answer.operator, checks) # first
        THEN "unknown"
        ELSE first

\* A source that was not issued, or a condition called supported without one.
Unsourced ==
    \/ answer.cited = "foreign"
    \/ \E i \in DOMAIN answer.checks :
          \/ answer.checks[i].passage = "foreign"
          \/ answer.checks[i].claim = "supported" /\ answer.checks[i].passage = "none"

\* It discards the whole answer.
Resolve ==
    /\ review = "answered"
    /\ IF Unsourced
       THEN review' = "rejected" /\ UNCHANGED held
       ELSE LET checks == [i \in DOMAIN answer.checks |-> ResolvedCheck(i)]
            IN  /\ review' = "resolved"
                /\ held' = [held EXCEPT !.checks = checks, !.outcome = ResolvedOutcome(checks)]
    /\ UNCHANGED answer
-------------------------------------------------------------------------------
(* The guards of a supported or missing requirement: validate_assessment *)

\* A gap needs a passage that denies the requirement.
GapGuard(outcome, cited, denies) ==
    IF outcome = "gap" /\ ~(cited /\ denies) THEN "unknown" ELSE outcome

\* Availability, years and degrees must be explicit in the passage.
FactGuard(outcome, category, doubts) ==
    IF /\ outcome = "supported"
       /\ \E rule \in {"constraint", "years", "degree"} : Doubted(rule, category, doubts)
    THEN "unknown"
    ELSE outcome

\* prioritize_assessment: half of a compound, construction without evidence and
\* activities without performance lower a supported outcome.
ClaimGuard(outcome, category, doubts) ==
    IF /\ outcome = "supported"
       /\ \E rule \in {"compound", "construction", "activity"} : Doubted(rule, category, doubts)
    THEN "unknown"
    ELSE outcome

\* _education_timing: other undergraduate dates decide the outcome.
TimingGuard(outcome, category, timing) ==
    IF category # "education" \/ timing = "none" THEN outcome
    ELSE IF timing = "explicit" THEN "gap" ELSE "unknown"

\* A condition passes all guards on its own words; its answer counts if the
\* passage it is left with is displayed, which after a date conflict is the
\* whole education and no longer the passage it cited.
ValidatedCheck(i) ==
    LET c == answer.checks[i]
        subject == IF held.checks[i] = "supported" /\ Doubted("subject", answer.category, c.doubts)
                   THEN "unknown" ELSE held.checks[i]
        gap == GapGuard(subject, c.passage # "none", c.denies)
        fact == FactGuard(gap, answer.category, c.doubts)
        claim == ClaimGuard(fact, answer.category, c.doubts)
        moved == answer.category = "education" /\ c.timing # "none"
    IN  IF ~Shown(i) THEN "unknown"
        ELSE IF moved THEN IF answer.cited = "whole" /\ c.timing = "explicit" THEN "gap" ELSE "unknown"
        ELSE claim

Sufficient(operator, outcomes) ==
    \/ operator = "any_of" /\ \E i \in DOMAIN outcomes : outcomes[i] = "supported"
    \/ operator \in {"atomic", "all_of"} /\ \A i \in DOMAIN outcomes : outcomes[i] = "supported"

\* A supported requirement without a passage discards the whole answer.
Validate ==
    /\ review = "resolved"
    /\ IF held.outcome = "supported" /\ ~held.cited
       THEN review' = "rejected" /\ UNCHANGED held
       ELSE LET gap == GapGuard(held.outcome, held.cited, answer.denies)
                fact == FactGuard(gap, answer.category, answer.doubts)
                checks == [i \in DOMAIN held.checks |-> ValidatedCheck(i)]
            IN  /\ review' = "validated"
                /\ held' = [held EXCEPT !.checks = checks,
                               !.outcome = IF fact = "supported"
                                              /\ ~Sufficient(answer.operator, checks)
                                           THEN "unknown" ELSE fact]
    /\ UNCHANGED answer

\* The last rules; a date conflict displays the whole education instead.
Prioritise ==
    /\ review = "validated"
    /\ review' = "stored"
    /\ held' = [held EXCEPT
                  !.outcome = TimingGuard(ClaimGuard(held.outcome, answer.category, answer.doubts),
                                          answer.category, answer.timing),
                  !.cited = held.cited \/ (answer.category = "education" /\ answer.timing # "none")]
    /\ UNCHANGED answer

ReviewNext == Resolve \/ Validate \/ Prioritise

ReviewSpec == AnswerInit /\ [][ReviewNext]_reviewVars
-------------------------------------------------------------------------------
(* Properties *)

\* The stages hold outcomes of the answer's shape.
ReviewTypes ==
    /\ review \in {"answered", "resolved", "validated", "stored", "rejected"}
    /\ held.outcome \in Outcomes /\ held.cited \in BOOLEAN
    /\ answer \in Answers /\ DOMAIN held.checks = DOMAIN answer.checks
    /\ \A i \in DOMAIN held.checks : held.checks[i] \in Outcomes

\* A stored requirement is supported only if the model claimed it, a displayed
\* passage is cited, no rule objects, and its stored conditions establish it:
\* the rules lower claims, in whatever order they meet, and never raise one.
SupportIsGrounded ==
    review = "stored" /\ held.outcome = "supported" =>
        /\ answer.claim = "supported" /\ answer.cited \in {"part", "whole"}
        /\ \A rule \in DOMAIN Applies \ {"subject"} :
              ~Doubted(rule, answer.category, answer.doubts)
        /\ answer.category = "education" => answer.timing = "none"
        /\ Aggregate(answer.operator, held.checks) = "supported"

\* A stored condition is supported only by a passage that the requirement
\* displays, and no rule objects to it on its own words.
ConditionsAreGrounded ==
    review = "stored" =>
        \A i \in DOMAIN held.checks : held.checks[i] = "supported" =>
            /\ answer.checks[i].claim = "supported" /\ Shown(i)
            /\ \A rule \in DOMAIN Applies \ {"scope"} :
                  ~Doubted(rule, answer.category, answer.checks[i].doubts)

\* Missing evidence is never called a contradiction: a stored gap is denied by
\* the cited passage or by explicit other dates.
GapIsContradiction ==
    review = "stored" /\ held.outcome = "gap" =>
        \/ answer.claim = "gap" /\ answer.denies
        \/ answer.category = "education" /\ answer.timing = "explicit"

\* What the resolution of the citations accepts is never discarded afterwards:
\* a paid answer is not lost to a guard that the first pass could have met.
ResolvedIsKept == [][review = "resolved" => review' # "rejected"]_reviewVars
===============================================================================
