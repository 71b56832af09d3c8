------------------------------- MODULE FormQuestions -------------------------------
(***************************************************************************)
(* What is known of a question of an application form before anything may  *)
(* answer it (backend/app/autofill_assistant.py, answer_preparation/       *)
(* service.py).                                                            *)
(*                                                                         *)
(* What the patterns find in a label is data.  A question has a kind of    *)
(* control, whether the site marked it as one for the user (manual) or     *)
(* gives yes and no as its only options (yesNo), the fact that the label   *)
(* names (rule), and the patterns that its label matches (wording).        *)
(***************************************************************************)
EXTENDS Integers, FiniteSets

Dates == {"internship_start_date", "internship_end_date"}
Endpoints == {"education_start_year", "education_start_month", "education_end_year",
              "education_end_month"}
Residence == {"current_city", "current_country"}
Preferences == {"internship_commitment", "internship_type", "fulltime_start_year",
                "job_discovery_source", "job_discovery_other"}

\* The facts a user may have saved: no declaration and no consent is one of them.
Facts ==
    {"full_name", "given_name", "family_name", "email", "phone", "phone_country_code",
     "nationality_country", "study_country", "school", "institution_type", "current_student",
     "degree", "discipline", "education", "experience", "skills", "summary", "availability",
     "work_arrangement", "salary_expectation", "notice_period", "linkedin", "github", "portfolio"}
    \union Dates \union Endpoints \union Residence \union Preferences

Kinds == {"text", "date", "number", "select", "combobox"}
Choice(q) == q.kind \in {"select", "combobox"}

Wordings == {"protected", "sensitive", "subjective", "degree", "other", "prefix", "heard",
             "availability"}
Worded(q, patterns) == q.wording \intersect patterns # {}

\* _rule_key: the fact that a label names, if it names one.
Named(q) == q.rule # "none"

Question(q) ==
    /\ q.kind \in Kinds /\ q.manual \in BOOLEAN /\ q.yesNo \in BOOLEAN
    /\ q.rule \in Facts \union {"none"}
    /\ q.wording \subseteq Wordings

\* _appropriate_kind: a yes or no is no copy of a fact, but for the student's own.
AppropriateKind(q, key) ==
    CASE q.kind = "date" -> key \in Dates
      [] q.kind = "number" -> key \in Endpoints
      [] OTHER -> (key = "current_student" /\ q.rule = key) \/ ~q.yesNo

\* _safe_question: what a mapping may be asked about.
SafeQuestion(q) == ~q.manual /\ ~Worded(q, {"sensitive", "subjective", "degree"})

\* _protected: what only the user may answer.  A choice among facts or of dates is
\* ordinary although it is put as a question.
Ordinary(q) == Choice(q) /\ q.rule \in {"institution_type", "current_student"} \union Preferences
Protected(q) ==
    LET excused == Ordinary(q) \/ (q.kind = "select" /\ Worded(q, {"availability"}))
    IN  \/ q.manual
        \/ Worded(q, {"protected", "degree", "other"})
        \/ (q.yesNo \/ Worded(q, {"prefix"})) /\ ~excused
        \/ Worded(q, {"heard"}) /\ ~Ordinary(q)
===============================================================================
