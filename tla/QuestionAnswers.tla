------------------------------ MODULE QuestionAnswers ------------------------------
(***************************************************************************)
(* What the server makes of the model's plan for the questions of a form,  *)
(* and what it then tells of each question (backend/app/                   *)
(* answer_preparation/service.py: _saved, _question_answer,                *)
(* _validated_question_answers, _responses).                               *)
(*                                                                         *)
(* The plan gives every question that was asked a disposition: a saved     *)
(* fact, excerpts of issued passages, or nothing found.  A plan that is    *)
(* malformed is refused whole; a claim that its evidence does not          *)
(* establish is kept for the user to confirm and spoils no other question. *)
(* What the patterns find in labels and passages is data: a question has   *)
(* the topics that its label is about, a selection the objections          *)
(* (doubts) that the rules of a topic have to its passages.                *)
(***************************************************************************)
EXTENDS FormQuestions, Sequences

CONSTANT Inquiries \* preparations: records as described below

VARIABLES
    inquiry, \* the form, the saved facts and the model's plan
    stage,   \* "asked", "judged" or "told"
    known,   \* what the cache holds of each question (result["fields"])
    given    \* what the report says of each question

inquiryVars == <<inquiry, stage, known, given>>

Budget == 700 \* characters of the excerpts of one answer
Framing == 21 \* of the words that introduce a role and a background
Scheme == 8   \* of https://

(* A text: shape is what it reads as, size its length, month the month that  *)
(* it names or numbers (0 for none), name the full name of that month, tail  *)
(* its last word and degree <<family, title>>.                               *)
TextShape(t) ==
    /\ t = [is |-> t.is, shape |-> t.shape, size |-> t.size, month |-> t.month, name |-> t.name,
            tail |-> t.tail, degree |-> t.degree]
    /\ t.size \in Nat

(* A question has besides: alias (the fact its id stands for), about (the    *)
(* topics of its label), broad (it asks for any location), options, each     *)
(* with its value and label, searchable and room (the length of an answer).  *)
Topics == {"employer", "residence", "grade", "study_year", "action", "project", "readiness",
           "endpoint", "month", "website", "github"}
AnswerField(q) ==
    /\ Question(q) /\ q.alias \in Facts \union {"none"} /\ q.about \subseteq Topics
    /\ q.broad \in BOOLEAN /\ q.searchable \in BOOLEAN /\ q.room \in Nat
    /\ \A k \in DOMAIN q.options : /\ TextShape(q.options[k].value) /\ TextShape(q.options[k].label)
                                   /\ q.options[k].value.is # "none"
Rule(q) == IF Named(q) THEN q.rule ELSE q.alias

(* A selection has a disposition, the key of a fact, excerpts (each with its *)
(* source, whether it is a part of a passage of this request and of which),  *)
(* a choice among options and the text that the excerpts say together; short *)
(* is a text that may be searched for, bare a link without its scheme,       *)
(* header a location printed in the PDF's own header.  A choice names an     *)
(* option by its value, or none, and cites what it takes for the same:       *)
(* quoted if that is in the excerpts, derived if they make it so.            *)
NoChoice == [none |-> TRUE]
Dispositions == {"saved_fact", "resume_evidence", "role_connection", "missing"}
SelectionShape(s) ==
    /\ s.disposition \in Dispositions /\ TextShape(s.text)
    /\ s.choice = NoChoice
          \/ /\ TextShape(s.choice.cites) /\ s.choice.quoted \in BOOLEAN
             /\ s.choice.normal \in {"literal", "month", "country", "degree"}
             /\ s.choice.derived \in BOOLEAN
    /\ {s.short, s.bare, s.header} \subseteq BOOLEAN
Applicants(s) == {k \in DOMAIN s.excerpts : s.excerpts[k].source # "job"}
FromJob(s) == {k \in DOMAIN s.excerpts : s.excerpts[k].source = "job"}

(* An inquiry: [form, facts, plan, mappings, answered, truncated]: the       *)
(* questions, the saved values, a selection for each index of an asked       *)
(* question, the other facts that the plan proposes, whether a whole plan    *)
(* came in time, and whether the PDF was too long to be read.                *)
ASSUME InquiryShapes ==
    \A n \in Inquiries :
        /\ \A i \in DOMAIN n.form : AnswerField(n.form[i])
        /\ \A key \in DOMAIN n.facts : key \in Facts /\ TextShape(n.facts[key])
        /\ \A i \in DOMAIN n.plan : SelectionShape(n.plan[i])
        /\ n.answered \in BOOLEAN /\ n.truncated \in BOOLEAN

Holds(key) == key \in DOMAIN inquiry.facts

InquiryInit ==
    /\ inquiry \in Inquiries
    /\ stage = "asked" /\ known = <<>> /\ given = <<>>
-------------------------------------------------------------------------------
(* Saved facts: _saved, _option_value *)

Months == {"education_start_month", "education_end_month"}
Searched == {"school", "current_city", "discipline"}
SameMonth(a, b) == a.month # 0 /\ a.month = b.month
\* _degree_equivalent: a general title stands for every degree of its family.
SameDegree(a, b) ==
    \/ a.is = b.is
    \/ /\ a.degree[1] # "none" /\ a.degree[1] = b.degree[1]
       /\ b.degree[2] \in {"general", a.degree[2]}

\* The options that stand for a saved value.
Standing(q, key, v) ==
    LET spoken == IF key \in Months /\ v.month # 0 THEN {v.is, v.name} ELSE {v.is}
        same == {k \in DOMAIN q.options :
                    LET o == q.options[k]
                    IN  /\ o.value.is # "blank"
                        /\ IF key = "degree" THEN SameDegree(v, o.label)
                           ELSE {o.value.is, o.label.is} \intersect spoken # {}}
    IN  IF same = {} /\ key = "phone_country_code"
        THEN {k \in DOMAIN q.options : /\ q.options[k].value.is # "blank"
                                       /\ q.options[k].label.tail = v.is}
        ELSE same

\* The texts under which a saved fact may be put into a question: one or none.
Values(q, key) ==
    LET v == inquiry.facts[key]
        standing == Standing(q, key, v)
    IN  IF ~Choice(q) THEN {v}
        ELSE IF standing # {}
        THEN {q.options[k].value : k \in {k \in standing : standing = {k}}}
        ELSE IF q.kind = "combobox" /\ key \in Searched THEN {v} ELSE {}

Saved(q, key) ==
    /\ Holds(key) /\ AppropriateKind(q, key)
    /\ q.kind \in {"date", "number"} => inquiry.facts[key].shape = q.kind
    /\ \E v \in Values(q, key) : v.size <= q.room
SavedValue(q, key) == CHOOSE v \in Values(q, key) : v.size <= q.room

\* _needed: the questions that the model is asked.
Needed(q) ==
    ~Protected(q) /\ Rule(q) \notin Preferences /\ ~(Rule(q) # "none" /\ Saved(q, Rule(q)))
AskedOf == {i \in DOMAIN inquiry.form : Needed(inquiry.form[i])}
-------------------------------------------------------------------------------
(* A claim and its evidence: _question_scope, _choice_date_scope *)

\* _specific_fact_scope: the topic for which only an explicit statement will do.
Specific(q) == q.about \intersect {"employer", "residence", "grade", "study_year"}
ResidenceAsked(q) == "residence" \in q.about /\ "employer" \notin q.about

Unestablished(q, s) ==
    \/ s.doubts \intersect q.about
          \intersect {"employer", "study_year", "grade", "action", "project"} # {}
    \/ ResidenceAsked(q) /\ "residence" \in s.doubts /\ ~(q.broad /\ s.header)

DateUnestablished(q, s) == s.doubts \intersect q.about \intersect {"readiness", "endpoint"} # {}

\* An answer to a choice is an observed option, or a search for one.
Single(S) == \E k \in S : S = {k}
Search(s) == [option |-> "none", cites |-> s.text, quoted |-> TRUE, normal |-> "literal",
              derived |-> FALSE]
ChoiceOf(s) == IF s.choice = NoChoice THEN Search(s) ELSE s.choice
MaySearch(q) == q.kind = "combobox" /\ q.searchable
Chosen(q, c) == {k \in DOMAIN q.options : q.options[k].value.is = c.option /\ c.option # "blank"}

Equivalent(q, c, label) ==
    CASE c.normal = "month" -> SameMonth(c.cites, label)
      [] c.normal = "degree" -> SameDegree(c.cites, label)
      [] c.normal = "country" -> c.cites.is = label.is
      [] OTHER -> IF q.rule \in {"institution_type", "current_student"} THEN c.derived
                  ELSE c.cites.is = label.is

\* A select is given the value of its option, a combobox the label it searches for.
ChosenText(q, c) ==
    LET k == CHOOSE k \in Chosen(q, c) : TRUE
    IN  IF c.option = "none" THEN c.cites
        ELSE IF q.kind = "select" THEN q.options[k].value ELSE q.options[k].label

\* Only one option has the label, and only one is alike in the way that is claimed.
OneAlike(q, c, label) ==
    LET labelled == {k \in DOMAIN q.options : q.options[k].label.is = label.is}
        months == {k \in DOMAIN q.options : SameMonth(c.cites, q.options[k].label)}
        degrees == {k \in DOMAIN q.options : SameDegree(c.cites, q.options[k].label)}
    IN  /\ Single(labelled)
        /\ c.normal = "month" => Single(months)
        /\ c.normal = "degree" => Single(degrees)

Proven(q, s, c) ==
    /\ ~Unestablished(q, s) /\ ~DateUnestablished(q, s)
    /\ c.option # "none" /\ q.rule \in {"institution_type", "current_student"} =>
          "derivation" \notin s.doubts
    /\ c.normal = "month" => "month" \in q.about /\ "month" \notin s.doubts
    /\ c.normal = "degree" => "degree" \notin s.doubts

\* _choice_answer: an objection is for the user to confirm, but a value that is not in
\* the excerpts refuses the plan.
ChoiceVerdict(q, s) ==
    LET c == ChoiceOf(s)
        label == q.options[CHOOSE k \in Chosen(q, c) : TRUE].label
    IN  IF s.choice = NoChoice /\ ~(MaySearch(q) /\ q.options = <<>> /\ s.short) THEN "confirm"
        ELSE IF ~c.quoted THEN "invalid"
        ELSE IF /\ Proven(q, s, c)
                /\ IF c.option = "none"
                   THEN MaySearch(q) /\ c.normal = "literal" /\ c.cites.size <= q.room
                   ELSE /\ Single(Chosen(q, c))
                        /\ OneAlike(q, c, label) /\ Equivalent(q, c, label)
                        /\ ChosenText(q, c).size <= q.room
        THEN "answer" ELSE "confirm"
-------------------------------------------------------------------------------
(* The disposition of a question: _question_answer *)

SavedVerdict(q, s) ==
    IF s.key \notin Facts \/ s.excerpts # <<>> \/ s.choice # NoChoice THEN "invalid"
    ELSE IF \/ Rule(q) \notin {"none", s.key}
            \/ Specific(q) # {} /\ ~(ResidenceAsked(q) /\ s.key \in Residence)
    THEN "confirm"
    ELSE IF Saved(q, s.key) THEN "mapped" ELSE "invalid"

\* Excerpts are parts of issued passages, each cited once, and a job's description
\* says nothing of the applicant.
Malformed(q, s) ==
    \/ s.key # "none" \/ s.excerpts = <<>>
    \/ \E k \in DOMAIN s.excerpts :
          \/ ~s.excerpts[k].issued
          \/ \E l \in DOMAIN s.excerpts : l # k /\ s.excerpts[l].ref = s.excerpts[k].ref
    \/ Applicants(s) = {}
    \/ s.disposition = "resume_evidence" /\ FromJob(s) # {}
    \/ s.choice # NoChoice /\ ~Choice(q)

\* The answer as it will be shown.
Joined(s) ==
    IF s.disposition = "role_connection" THEN [s.text EXCEPT !.size = @ + Framing] ELSE s.text
Linked(s) == IF s.bare THEN [Joined(s) EXCEPT !.size = @ + Scheme] ELSE Joined(s)
Filled(q, s) ==
    IF Choice(q) THEN ChosenText(q, ChoiceOf(s))
    ELSE IF "website" \in q.about THEN Linked(s) ELSE Joined(s)

TooLong(q, s) ==
    \/ s.text.size > Budget
    \/ ~Choice(q) /\ Joined(s).size > q.room
Misshapen(q, s) ==
    \/ q.kind \in {"number", "date"} /\ s.text.shape # q.kind
    \/ ~Choice(q) /\ "website" \in q.about /\ ("website" \in s.doubts \/ Len(s.excerpts) # 1)
Unframed(q, s) ==
    s.disposition = "role_connection" /\ (q.kind # "text" \/ FromJob(s) = {})

\* What of a claim is for the user to confirm.
ToConfirm(q, s) ==
    IF s.disposition = "role_connection" THEN Choice(q) \/ Specific(q) # {} \/ Rule(q) # "none"
    ELSE IF Choice(q) THEN ChoiceVerdict(q, s) = "confirm" ELSE Unestablished(q, s)

EvidenceVerdict(q, s) ==
    IF Malformed(q, s) THEN "invalid"
    ELSE IF ToConfirm(q, s) THEN "confirm"
    ELSE IF \/ Choice(q) /\ ChoiceVerdict(q, s) = "invalid"
            \/ Unframed(q, s) \/ TooLong(q, s) \/ Misshapen(q, s)
    THEN "invalid"
    ELSE IF "github" \in s.doubts \intersect q.about /\ ~Choice(q) THEN "confirm"
    ELSE IF Filled(q, s).size > q.room THEN "invalid" ELSE "answer"

Judgement(q, s) ==
    CASE s.disposition = "saved_fact" -> SavedVerdict(q, s)
      [] s.disposition = "missing" ->
            IF s.key # "none" \/ s.excerpts # <<>> \/ s.choice # NoChoice THEN "invalid"
            ELSE IF inquiry.truncated THEN "truncated" ELSE "missing"
      [] OTHER -> EvidenceVerdict(q, s)
-------------------------------------------------------------------------------
(* The plan and the report *)

Selection(i) == inquiry.plan[i]
\* _validated_question_answers: each question once, and nothing malformed.
PlanHolds ==
    /\ inquiry.answered /\ DOMAIN inquiry.plan = AskedOf
    /\ \A m, n \in inquiry.mappings : m[1] = n[1] => m = n
    /\ \A m \in inquiry.mappings : m[1] \in AskedOf /\ Saved(inquiry.form[m[1]], m[2])
    /\ \A i \in AskedOf : Judgement(inquiry.form[i], Selection(i)) # "invalid"

\* Questions that are equal but for their id share an entry: that of whichever of them the
\* plan names last.
LastOf(q) == CHOOSE i \in AskedOf : inquiry.form[i] = q

Judge ==
    /\ stage = "asked" /\ stage' = "judged"
    /\ known' = [q \in {inquiry.form[i] : i \in AskedOf} |->
                    IF PlanHolds
                    THEN [is |-> Judgement(q, Selection(LastOf(q))), of |-> LastOf(q)]
                    ELSE [is |-> "failed", of |-> LastOf(q)]]
    /\ UNCHANGED <<inquiry, given>>

PendingSize == 15 \* of "To be confirmed"
NoText == [is |-> "none", shape |-> "text", size |-> 0, month |-> 0, name |-> "none",
           tail |-> "none", degree |-> <<"none", "none">>]
Omitted(reason) == [source |-> "omitted", key |-> "none", value |-> NoText, reason |-> reason]
SavedAnswer(q, key) ==
    [source |-> "saved", key |-> key, value |-> SavedValue(q, key), reason |-> "none"]

\* _responses: a saved fact comes before anything that was cached.
Response(q) ==
    LET entry == IF q \in DOMAIN known THEN known[q] ELSE [is |-> "none", of |-> 0]
        key == IF entry.is = "mapped" THEN Selection(entry.of).key ELSE "none"
    IN  IF Protected(q) THEN Omitted("personal")
        ELSE IF Rule(q) # "none" /\ Saved(q, Rule(q)) THEN SavedAnswer(q, Rule(q))
        ELSE IF key # "none" /\ Saved(q, key) THEN SavedAnswer(q, key)
        ELSE IF entry.is = "answer"
        THEN [source |-> "ai_draft", key |-> "none", value |-> Filled(q, Selection(entry.of)),
              reason |-> "none"]
        ELSE IF entry.is = "missing" /\ q.kind = "text" /\ q.room >= PendingSize
        THEN [source |-> "pending", key |-> "none", value |-> NoText, reason |-> "none"]
        ELSE IF entry.is \notin {"none", "mapped"} THEN Omitted(entry.is)
        ELSE Omitted(IF Rule(q) \in Preferences THEN "unsaved_preference" ELSE "not_analysed")

Report ==
    /\ stage = "judged" /\ stage' = "told"
    /\ given' = [i \in DOMAIN inquiry.form |-> Response(inquiry.form[i])]
    /\ UNCHANGED <<inquiry, known>>

InquiryNext == Judge \/ Report
InquirySpec == InquiryInit /\ [][InquiryNext]_inquiryVars
-------------------------------------------------------------------------------
(* Properties *)

Told(i, sources) == stage = "told" /\ i \in DOMAIN given /\ given[i].source \in sources

\* A drafted answer is of a plan without a fault, rests on issued passages of the
\* applicant's, on nothing else for a fact, and on an explicit statement where only
\* that will do (service.py:3).
DraftsAreSupported ==
    \A i \in DOMAIN inquiry.form : Told(i, {"ai_draft"}) =>
        LET q == inquiry.form[i]
            s == Selection(LastOf(q))
        IN  /\ i \in AskedOf /\ inquiry.answered
            /\ \A j \in AskedOf : Judgement(inquiry.form[j], Selection(j)) # "invalid"
            /\ Applicants(s) # {} /\ \A k \in DOMAIN s.excerpts : s.excerpts[k].issued
            /\ FromJob(s) # {} => Specific(q) = {} /\ Rule(q) = "none" /\ q.kind = "text"
            /\ FromJob(s) = {} => ~Unestablished(q, s)

\* What is put into a control is something that it takes: a number, a date, a text
\* that has room, an option of the control, or a search where one may search.
AnswersFit ==
    \A i \in DOMAIN inquiry.form : Told(i, {"saved", "ai_draft"}) =>
        LET q == inquiry.form[i]
            v == given[i].value
        IN  /\ v.size <= q.room
            /\ q.kind \in {"number", "date"} => v.shape = q.kind
            /\ q.kind = "select" =>
                  LET valued == {k \in DOMAIN q.options : q.options[k].value = v}
                  IN  valued # {} /\ (given[i].source = "ai_draft" => Single(valued))
            /\ q.kind = "combobox" =>
                  \/ \E k \in DOMAIN q.options : v \in {q.options[k].value, q.options[k].label}
                  \/ MaySearch(q) \/ given[i].key \in Searched

\* Nothing is told to be missing that a longer reading may find, that was claimed and
\* could not be proved, or that was not answered (service.py:905).
MissingIsMissing ==
    \A i \in DOMAIN inquiry.form : Told(i, {"pending"}) =>
        /\ PlanHolds /\ ~inquiry.truncated
        /\ Selection(LastOf(inquiry.form[i])).disposition = "missing"

\* Whatever the plan says, a question for the user is left to the user, a saved fact
\* is told as it is saved, and a preference is never drafted.
UserComesFirst ==
    \A i \in DOMAIN inquiry.form : stage = "told" =>
        LET q == inquiry.form[i]
        IN  /\ Protected(q) => given[i].source = "omitted" /\ i \notin AskedOf
            /\ ~Protected(q) /\ Rule(q) # "none" /\ Saved(q, Rule(q)) =>
                  given[i] = SavedAnswer(q, Rule(q))
            /\ Rule(q) \in Preferences => given[i].source \in {"saved", "omitted"}

\* What was asked is settled, in the cache and in the report: it is not asked again
\* and not told to be unanalysed; and a claim to confirm spoils no other answer.
AskedIsSettled ==
    \A i \in AskedOf : stage = "told" =>
        LET q == inquiry.form[i]
        IN  /\ q \in DOMAIN known /\ given[i].reason # "not_analysed"
            /\ PlanHolds /\ Judgement(q, Selection(LastOf(q))) = "answer" =>
                  given[i].source = "ai_draft"
===============================================================================
