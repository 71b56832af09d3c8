------------------------------- MODULE JobMatching -------------------------------
(***************************************************************************)
(* The comparison of a profile with the extracted requirements of a job,   *)
(* and the order in which jobs are proposed (backend/app/job_matching.py,  *)
(* job_recommendations.py, responsibility_matching.py, skill_signals.py    *)
(* and job_extraction/source_review.py).                                   *)
(*                                                                         *)
(* Both endpoints only read, so a report is an operator of the state: the  *)
(* profile, the jobs, the latest extraction run of each and the one source *)
(* review the server may be configured with.  Wording is abstracted to how *)
(* a quote stands in the text of the job:                                  *)
(*   "bare"      the whole sentence is the skill, or the skill "required"; *)
(*   "cut"       the quote names the skill, its sentence adds conditions;  *)
(*   "qualified" the quote itself carries years, level or alternatives;    *)
(*   "doubtful"  the sentence denies, hedges or only promises to teach it; *)
(*   "clipped"   the quote is cut out of another word, Java of JavaScript; *)
(*   "absent"    the quote is not in the text of the job as it is now.     *)
(***************************************************************************)
EXTENDS Integers, Sequences, FiniteSets

CONSTANTS VacancyCount, \* number of active jobs
          Skills,     \* skills that mentions() knows
          General,    \* those of them of the kind "general"
          Atomic,     \* those of them in ALIASES, the comparable labels
          Entries,    \* lines of the profile's skills: a skill and how it is claimed
          Units,      \* lines of its experience: an activity and how it is claimed
          Content,    \* what the extraction of each job says
          Corrected,  \* what the configured source review says instead
          Reviewed,   \* the job it is for
          Interns,    \* jobs posted as internships
          Limit       \* length of a report

\* The active jobs, the most recently posted first.
Vacancies == 1..VacancyCount

Claims == {"exact", "named", "denied", "hedged"}
Quotes == {"bare", "cut", "qualified", "doubtful", "clipped", "absent"}

ASSUME MatchConstants ==
    /\ VacancyCount \in Nat
    /\ General \subseteq Skills /\ Atomic \subseteq Skills
    /\ \A e \in Entries : e.skill \in Skills /\ e.claim \in Claims
    /\ Limit \in Nat \ {0}
    /\ IsFiniteSet(Skills) /\ IsFiniteSet(Units)
\* A fact of the first schema is one statement.
ASSUME MatchContent ==
    \A r \in Corrected.rows \union UNION {Content[j].rows : j \in Vacancies} :
        /\ r.atoms # {}
        /\ r.operator = "fact" => \E a \in r.atoms : r.atoms = {a}

VARIABLES
    entries,   \* lines of skills in the profile
    units,     \* lines of experience in the profile
    seeks,     \* its summary says that the user seeks an internship
    latest     \* the latest run of each job: none, running, failed or needs_review; is it the
               \* run the source review is of, a mock one, for the text of now
matchVars == <<entries, units, seeks, latest>>

NoRun == [status |-> "none", original |-> FALSE, mock |-> FALSE, current |-> FALSE]

MatchInit ==
    /\ entries = {} /\ units = {} /\ seeks = FALSE
    /\ latest = [j \in Vacancies |-> NoRun]

\* update_profile: one line of the skills or of the experience, or the summary.
EditEntries(e) ==
    /\ entries' = IF e \in entries THEN entries \ {e} ELSE entries \union {e}
    /\ UNCHANGED <<units, seeks, latest>>
EditUnits(u) ==
    /\ units' = IF u \in units THEN units \ {u} ELSE units \union {u}
    /\ UNCHANGED <<entries, seeks, latest>>
EditSummary ==
    /\ seeks' = ~seeks
    /\ UNCHANGED <<entries, units, latest>>

\* A new run of a job starts, and is its latest; the first live one is the run
\* that the configured review was made of.
StartRun(j, mock) ==
    /\ latest[j].status # "running"
    /\ latest' = [latest EXCEPT ![j] = [status |-> "running", mock |-> mock, current |-> TRUE,
                        original |-> j = Reviewed /\ latest[j] = NoRun /\ ~mock]]
    /\ UNCHANGED <<entries, units, seeks>>
EndRun(j, status) ==
    /\ latest[j].status = "running"
    /\ latest' = [latest EXCEPT ![j].status = status]
    /\ UNCHANGED <<entries, units, seeks>>

\* A crawl finds another text, and with it other input for the extraction.
Recrawl(j) ==
    /\ latest[j].current
    /\ latest' = [latest EXCEPT ![j].current = FALSE]
    /\ UNCHANGED <<entries, units, seeks>>

MatchNext ==
    \/ \E e \in Entries : EditEntries(e)
    \/ \E u \in Units : EditUnits(u)
    \/ EditSummary
    \/ \E j \in Vacancies : \/ \E mock \in BOOLEAN : StartRun(j, mock)
                            \/ \E status \in {"needs_review", "failed"} : EndRun(j, status)
                            \/ Recrawl(j)

MatchSpec == MatchInit /\ [][MatchNext]_matchVars
-------------------------------------------------------------------------------
(* What the profile says: skill_signals.py and responsibility_matching.py *)

Claimed(s, claims) == \E e \in entries : e.skill = s /\ e.claim \in claims

\* positive_profile: a line that hedges or denies vetoes the skill everywhere.
Affirmed == {s \in Skills : Claimed(s, {"exact", "named"}) /\ ~Claimed(s, {"denied", "hedged"})}

\* _project_evidence: activities done and nowhere denied.
Projects == {u.activity : u \in {v \in units : v.claim = "done"}}
                \ {u.activity : u \in {v \in units : v.claim = "denied"}}
-------------------------------------------------------------------------------
(* One requirement: job_matching.py *)

\* compare_skill: only the exact label of a line counts, and only a denial of it.
Compared(a) ==
    LET yes == Claimed(a.skill, {"exact"})
        no  == Claimed(a.skill, {"denied"})
    IN  IF a.skill \notin Atomic \/ a.quote \in {"qualified", "doubtful"} \/ yes = no THEN "unknown"
        ELSE IF yes THEN "supported" ELSE "gap"

\* skill_overlaps: a skill that the label, the quote, its sentence and the
\* profile all name, when neither doubts it.
Overlap(a) ==
    IF a.kind = "skill" /\ a.quote \in {"bare", "cut", "qualified"}
    THEN {a.skill} \intersect Affirmed ELSE {}

\* A denial beside a line that affirms the skill on its own is a conflict.
Contradicted(a) == Compared(a) = "gap" /\ Claimed(a.skill, {"exact", "named"})

\* A fact of the first schema: only a bare sentence decides anything.
FactOutcome(a) ==
    IF \/ a.kind # "skill" \/ a.quote # "bare" \/ Contradicted(a)
       \/ Compared(a) = "supported" /\ Overlap(a) = {}
    THEN "unknown" ELSE Compared(a)

\* _narrow_atomic_group: one plain skill that is the whole of a bare sentence.
Narrow(g) ==
    /\ g.operator = "all_of" /\ g.quote = "bare"
    /\ \A a, b \in g.atoms : a = b
    /\ \A a \in g.atoms : a.kind = "skill" /\ ~a.qualifier /\ a.quote = "bare"

\* _compare_group_atom: named overlaps of concrete skills, never of traits.
AtomOverlap(a, g) ==
    IF g.quote \in {"doubtful", "absent"} THEN {} ELSE Overlap(a) \ General
AtomOutcome(a, g) ==
    IF /\ Narrow(g) /\ ~Contradicted(a)
       /\ Compared(a) = "gap" \/ AtomOverlap(a, g) # {}
    THEN Compared(a) ELSE "unknown"

\* compare_payload: the outcome of a row and the skills it shares.
Outcome(r) ==
    IF r.operator = "fact" THEN FactOutcome(CHOOSE a \in r.atoms : TRUE)
    ELSE IF Narrow(r) THEN AtomOutcome(CHOOSE a \in r.atoms : TRUE, r) ELSE "unknown"
Shared(r) ==
    UNION {IF r.operator = "fact" THEN Overlap(a) ELSE AtomOverlap(a, r) : a \in r.atoms}

\* match_responsibilities: an activity that the duty states without doubt and
\* within the scope the model gave it, and that the profile has done.
RelatedJob(d) ==
    IF /\ d.quote \in {"bare", "cut"}
       /\ d.heading = "conditional" => d.priority = "conditional"
       /\ d.heading = "secondary" => d.priority \in {"secondary", "conditional"}
    THEN {d.activity} \intersect Projects ELSE {}
-------------------------------------------------------------------------------
(* One job: build_analysis and resolve_source_review *)

\* The configured review holds for the very run and text it was made of.
ReviewHolds(j) ==
    j = Reviewed /\ latest[j].original /\ latest[j].status = "needs_review" /\ latest[j].current

\* Why a job has no analysis.
Reason(j) ==
    IF j = Reviewed /\ ~ReviewHolds(j) THEN "invalid_source_review"
    ELSE IF latest[j].status = "none" THEN "missing_extraction"
    ELSE IF latest[j].status \in {"running", "failed"} THEN "extraction"
    ELSE IF ~latest[j].current THEN "stale_extraction"
    ELSE "none"

MatchRows(j) == IF ReviewHolds(j) THEN Corrected.rows ELSE Content[j].rows
Duties(j) == IF ReviewHolds(j) THEN Corrected.duties ELSE Content[j].duties
-------------------------------------------------------------------------------
(* The report: job_recommendations.py *)

ConcreteSkills == Affirmed \ General

Concrete(j) == (UNION {Shared(r) : r \in MatchRows(j)}) \ General
Exact(j) == (UNION {Shared(r) : r \in {q \in MatchRows(j) : Outcome(q) = "supported"}}) \ General
HasGap(j) == \E r \in MatchRows(j) : Outcome(r) = "gap"

\* Work that is secondary or conditional moves no job up.
Activities(j) ==
    UNION {RelatedJob(d) : d \in {e \in Duties(j) : e.priority \notin {"conditional", "secondary"}}}

\* Vacancies with a live analysis that shares something concrete with the profile.
Matched ==
    {j \in Vacancies : /\ ConcreteSkills # {} \/ Projects # {}
                       /\ Reason(j) = "none" /\ ~latest[j].mock
                       /\ Concrete(j) \union Activities(j) # {}}

Flag(b) == IF b THEN 1 ELSE 0

\* Known gaps come last, then other kinds of job, then the weaker evidence.
Key(j) ==
    <<Flag(HasGap(j)), Flag(seeks /\ j \notin Interns),
      -Cardinality(Exact(j)), -Cardinality(Concrete(j)), -Cardinality(Activities(j))>>

Precedes(p, q) ==
    \E k \in DOMAIN p : p[k] < q[k] /\ \A m \in 1..(k - 1) : p[m] = q[m]
Ahead(i, j) == Precedes(Key(i), Key(j)) \/ (Key(i) = Key(j) /\ i < j)
Proposed == {j \in Matched : Cardinality({i \in Matched : Ahead(i, j)}) < Limit}

\* Unverified leads: jobs without a run whose raw text names a skill of the user.
Leads ==
    {j \in Vacancies : /\ ConcreteSkills # {} /\ Reason(j) = "missing_extraction"
                       /\ Content[j].named \intersect ConcreteSkills # {}}
-------------------------------------------------------------------------------
(* Properties *)

\* Every variable has its type; a run that the review is of is live.
MatchTypes ==
    /\ entries \subseteq Entries /\ units \subseteq Units /\ seeks \in BOOLEAN
    /\ \A j \in Vacancies :
          /\ latest[j].status \in {"none", "running", "failed", "needs_review"}
          /\ latest[j].original => j = Reviewed /\ ~latest[j].mock

\* "Never invent" (skill_signals.py): support and shared names rest on a line that
\* affirms the skill while none denies or hedges it, whatever else the profile
\* says; a gap rests on a denial that no line contradicts; and neither rests on a
\* sentence that says more than the skill.
EvidenceIsExplicit ==
    \A r \in UNION {MatchRows(j) : j \in Vacancies} :
        LET named == {a.skill : a \in r.atoms} IN
        /\ Shared(r) \subseteq {s \in named : /\ Claimed(s, {"exact", "named"})
                                              /\ ~Claimed(s, {"denied", "hedged"})}
        /\ Outcome(r) = "supported" => \E s \in Shared(r) : Claimed(s, {"exact"})
        /\ Outcome(r) = "gap" => \A s \in named : /\ Claimed(s, {"denied"})
                                                  /\ ~Claimed(s, {"exact", "named"})
        /\ Outcome(r) # "unknown" => \A a \in r.atoms : a.quote = "bare" /\ a.skill \in Atomic

\* What is proposed was extracted from the text of now, or corrected by a review
\* of that very extraction, by a model and not by a mock; what secondary work
\* adds is not what a job is proposed for.
ProposedIsCurrent ==
    \A j \in Matched : /\ latest[j].status = "needs_review"
                       /\ latest[j].current /\ ~latest[j].mock
                       /\ (j = Reviewed => latest[j].original)
                       /\ j \notin Leads
                       /\ \/ Concrete(j) # {}
                          \/ \E d \in Duties(j) : /\ d.priority \notin {"conditional", "secondary"}
                                                  /\ d.activity \in Projects

\* A job with a known gap is not proposed while one without is left out.
GapsComeLast ==
    \A i \in Matched \ Proposed, j \in Proposed : ~HasGap(i) => ~HasGap(j)

\* More evidence never harms: a user who adds an affirmative line, or takes back a
\* doubt, loses no job and no job's place by evidence gets worse.
EvidenceHelps ==
    [][(/\ <<entries, units>>' # <<entries, units>>
        /\ \A e \in entries \ entries' : e.claim \in {"denied", "hedged"}
        /\ \A e \in entries' \ entries : e.claim \in {"exact", "named"}
        /\ \A u \in units \ units' : u.claim = "denied"
        /\ \A u \in units' \ units : u.claim = "done"
        /\ UNCHANGED <<seeks, latest>>)
       => /\ Matched \subseteq Matched'
          /\ \A j \in Matched : \E k \in {Key(j)} : ~Precedes(k, Key(j)')
      ]_matchVars
===============================================================================
