-------------------------------- MODULE CommonDrafts --------------------------------
(***************************************************************************)
(* The three drafts that a warm-up of a job prepares: an introduction, an  *)
(* account of experience, a motivation (backend/app/answer_preparation/    *)
(* service.py: _draft_tasks, _draft, the warm part of _responses).         *)
(*                                                                         *)
(* The model selects passages by reference.  A draft is the passages that  *)
(* fit a budget, whole, behind fixed words; a selection that is not        *)
(* allowed refuses the plan.                                               *)
(***************************************************************************)
EXTENDS Integers, Sequences, FiniteSets

CONSTANT Warmings \* warm-ups: records as described below

VARIABLES
    warming,   \* the passages, the saved texts and the model's plan
    warmth,    \* "asked", "judged" or "told"
    common,    \* what the cache holds of each draft (cache["common"])
    presented  \* what the report says of each

draftVars == <<warming, warmth, common, presented>>

DraftKinds == {"intro", "experience", "motivation"}
MaxSelected == 700 \* characters of the selected passages
MaxValue == 900    \* characters of a draft
FixedWords == [intro |-> 12, experience |-> 36, motivation |-> 22] \* fixed words

(* A warming: [profile, jobs, saved, drafts, answered].  The passages are    *)
(* issued in the order of their references, the applicant's as               *)
(* [field, size, performed], the job's as sizes.  saved are the drafts whose *)
(* question names a saved fact, drafts what the plan selects for some kinds: *)
(* [profile, jobs], sequences of references.                                 *)
Warming(w) ==
    /\ w = [profile |-> w.profile, jobs |-> w.jobs, saved |-> w.saved, drafts |-> w.drafts,
            answered |-> w.answered]
    /\ w.profile \in Seq([field : {"education", "experience", "skills", "resume_summary"},
                          size : 2..650, performed : BOOLEAN])
    \* _sources: what is cited as experience was done.
    /\ \A i \in DOMAIN w.profile : w.profile[i].field = "experience" => w.profile[i].performed
    /\ w.jobs \in Seq(2..300)
    /\ w.saved \subseteq {"intro", "experience"}
    /\ DOMAIN w.drafts \subseteq DraftKinds /\ w.answered \in BOOLEAN
    /\ \A k \in DOMAIN w.drafts :
          /\ w.drafts[k] = [profile |-> w.drafts[k].profile, jobs |-> w.drafts[k].jobs]
          /\ w.drafts[k].profile \in Seq(Nat) /\ Len(w.drafts[k].profile) \in 1..3
          /\ w.drafts[k].jobs \in Seq(Nat) /\ Len(w.drafts[k].jobs) \in 0..2

ASSUME WarmingShapes == \A w \in Warmings : Warming(w)

NotDrafted == [is |-> "none", profile |-> {}, jobs |-> {}, size |-> 0]
DraftInit ==
    /\ warming \in Warmings /\ warmth = "asked"
    /\ common = <<>> /\ presented = <<>>
-------------------------------------------------------------------------------
(* What is asked: _draft_tasks *)

SizeAt(i) == warming.profile[i].size
Eligible(k) ==
    {i \in DOMAIN warming.profile : k = "experience" => warming.profile[i].field = "experience"}

\* The first passage of a handy size, or else the shortest.
Handy(size) == 35 <= size /\ size <= 250
Better(S, size) ==
    LET handy == {i \in S : Handy(size[i])}
    IN  IF handy # {} THEN CHOOSE i \in handy : \A j \in handy : i <= j
        ELSE CHOOSE i \in S : \A j \in S : size[i] < size[j] \/ (size[i] = size[j] /\ i <= j)

Leading(k) ==
    LET active == {i \in Eligible(k) : warming.profile[i].field = "experience"}
    IN  Better(IF k # "intro" /\ active # {} THEN active ELSE Eligible(k),
               [i \in DOMAIN warming.profile |-> SizeAt(i)])
JobSize(i) == warming.jobs[i]
Advertised == Better(DOMAIN warming.jobs, [i \in DOMAIN warming.jobs |-> JobSize(i)])

Required(k) ==
    /\ Eligible(k) # {} /\ (k = "motivation" => warming.jobs # <<>>)
    /\ SizeAt(Leading(k)) + (IF k = "motivation" THEN JobSize(Advertised) ELSE 0) <= MaxSelected

\* The plan that the prompt gives as an example.
ExampleOf(k) ==
    [profile |-> <<Leading(k)>>, jobs |-> IF k = "motivation" THEN <<Advertised>> ELSE <<>>]
-------------------------------------------------------------------------------
(* What is made of the selection: _draft *)

Allowed(k, d) ==
    /\ \A m \in DOMAIN d.profile : d.profile[m] \in Eligible(k)
    /\ \A m \in DOMAIN d.jobs : d.jobs[m] \in DOMAIN warming.jobs
    /\ \A m, n \in DOMAIN d.profile : d.profile[m] = d.profile[n] => m = n
    /\ \A m, n \in DOMAIN d.jobs : d.jobs[m] = d.jobs[n] => m = n
    /\ k = "experience" => \E m \in DOMAIN d.profile : warming.profile[d.profile[m]].performed
    /\ k = "motivation" <=> d.jobs # <<>>

\* The first passages stay; then each further one that fits, the applicant's first.
FirstKept(d) ==
    IF d.jobs = <<>>
    THEN [profile |-> {d.profile[1]}, jobs |-> {}, size |-> SizeAt(d.profile[1])]
    ELSE [profile |-> {d.profile[1]}, jobs |-> {d.jobs[1]},
          size |-> SizeAt(d.profile[1]) + 1 + JobSize(d.jobs[1])]
WithProfile(kept, d, n) ==
    IF n <= Len(d.profile) /\ kept.size + 1 + SizeAt(d.profile[n]) <= MaxSelected
    THEN [kept EXCEPT !.profile = @ \union {d.profile[n]}, !.size = @ + 1 + SizeAt(d.profile[n])]
    ELSE kept
WithJob(kept, d) ==
    IF Len(d.jobs) = 2 /\ kept.size + 1 + JobSize(d.jobs[2]) <= MaxSelected
    THEN [kept EXCEPT !.jobs = @ \union {d.jobs[2]}, !.size = @ + 1 + JobSize(d.jobs[2])]
    ELSE kept
Selected(d) == WithJob(WithProfile(WithProfile(FirstKept(d), d, 2), d, 3), d)

Acceptable(k, d) ==
    /\ Allowed(k, d) /\ FirstKept(d).size <= MaxSelected
    /\ FixedWords[k] + Selected(d).size <= MaxValue

\* prepare_answers: one selection that is not acceptable, or a task without one, and no
\* draft is made.
PlanOfDraftsHolds ==
    /\ warming.answered
    /\ \A k \in DOMAIN warming.drafts : Acceptable(k, warming.drafts[k])
    /\ \A k \in DraftKinds : Required(k) => k \in DOMAIN warming.drafts

JudgeDrafts ==
    /\ warmth = "asked" /\ warmth' = "judged"
    /\ common' = [k \in DraftKinds |->
          IF ~PlanOfDraftsHolds THEN [NotDrafted EXCEPT !.is = "failed"]
          ELSE IF k \notin DOMAIN warming.drafts THEN [NotDrafted EXCEPT !.is = "not_analysed"]
          ELSE LET kept == Selected(warming.drafts[k])
               IN  [is |-> "draft", profile |-> kept.profile, jobs |-> kept.jobs,
                    size |-> FixedWords[k] + kept.size]]
    /\ UNCHANGED <<warming, presented>>

\* _responses: a saved text comes first.
TellDrafts ==
    /\ warmth = "judged" /\ warmth' = "told"
    /\ presented' = [k \in DraftKinds |-> IF k \in warming.saved THEN "saved" ELSE common[k].is]
    /\ UNCHANGED <<warming, common>>

DraftNext == JudgeDrafts \/ TellDrafts
DraftSpec == DraftInit /\ [][DraftNext]_draftVars
-------------------------------------------------------------------------------
(* Properties *)

\* A draft says what the applicant's own passages say: at least one, of work that was
\* done where experience is asked for, and a job's beside it for a motivation only
\* (service.py:156).
DraftsAreTheApplicants ==
    \A k \in DOMAIN common : common[k].is = "draft" =>
        /\ common[k].profile # {} /\ common[k].profile \subseteq DOMAIN warming.profile
        /\ k = "experience" => \A i \in common[k].profile : warming.profile[i].performed
        /\ k = "motivation" <=> common[k].jobs # {}

\* The budget drops no passage that a draft cannot do without, and the fixed words never
\* make a draft too long (service.py:464).
DraftsKeepTheBudget ==
    \A k \in DOMAIN common : common[k].is = "draft" =>
        /\ common[k].size <= MaxSelected + FixedWords[k]
        /\ warming.drafts[k].profile[1] \in common[k].profile
        /\ k = "motivation" => warming.drafts[k].jobs[1] \in common[k].jobs

\* What the prompt requires can be given: its own example is accepted ("All required
\* tasks have usable source evidence", service.py:142), but where the two passages
\* leave no room for the space between them.
RequiredIsPossible ==
    \A k \in DraftKinds : Required(k) =>
        \/ Acceptable(k, ExampleOf(k))
        \/ k = "motivation" /\ SizeAt(Leading(k)) + JobSize(Advertised) = MaxSelected

\* A required draft of a plan that holds is presented, unless a saved text is.
RequiredIsPresented ==
    warmth = "told" /\ PlanOfDraftsHolds =>
        \A k \in DraftKinds : Required(k) => presented[k] \in {"draft", "saved"}
===============================================================================
