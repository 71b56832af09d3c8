------------------------------ MODULE AutofillValues ------------------------------
(***************************************************************************)
(* The facts that forms are filled with (build_autofill_profile and        *)
(* grounded_facts of backend/app/profiles/autofill_facts.py): what a model *)
(* extracted from the used resume, as far as its text bears it out, under  *)
(* what the user typed, under the columns and links of the profile.        *)
(*                                                                         *)
(* One claim that the text does not bear out discards them all.  What the  *)
(* patterns find in a passage of the text is data.                         *)
(***************************************************************************)
EXTENDS FormQuestions, Sequences

CONSTANT Dossiers \* profiles: records as described below

VARIABLES
    dossier,  \* the used resume, what was typed, the columns and links
    reading,  \* "asked", "read" or "shown"
    status,   \* what the profile says of the resume's facts
    grounds,  \* the facts of the resume: the value and passage of each key
    values    \* the value of each key, with its source and passage

valueVars == <<dossier, reading, status, grounds, values>>

Columns == {"full_name", "contact_email", "phone", "availability_period", "skills", "experience",
            "education", "resume_summary", "given_name", "family_name", "nationality",
            "study_country"}
Schooling == {"school", "degree", "discipline"} \union Endpoints
Derived == {"institution_type", "current_student"}
Constraints == Dates \union {"work_arrangement", "salary_expectation", "notice_period"}
Links == {"linkedin", "github", "portfolio"}
FactKeys == Columns \union Schooling \union Derived \union Preferences \union Residence
               \union Constraints \union Links \union {"phone_country_code"}
Alias == [email |-> "contact_email", availability |-> "availability_period",
          summary |-> "resume_summary", nationality_country |-> "nationality"]

\* What a resume may tell: not how a name is divided, nor what only the user knows.
Extractable ==
    FactKeys \ (Derived \union Preferences
                   \union {"given_name", "family_name", "nationality", "study_country"})

(* A passage of a text: the dates of a course and the full dates in it, in   *)
(* order; whether it says present, and that of a course (ongoing); how many  *)
(* degrees it names; whether it is in the section on education; the keys     *)
(* whose wording it has (speaks) and the values that it says.                *)
PassageShape(p) ==
    /\ \A k \in DOMAIN p.dates : p.dates[k] = <<p.dates[k][1], p.dates[k][2]>>
    /\ p.present \in BOOLEAN /\ p.ongoing \in BOOLEAN /\ p.section \in BOOLEAN
    /\ p.ongoing => p.present
    /\ p.degrees \in Nat /\ p.speaks \subseteq FactKeys

(* An output: the passage about the education, or none, and claims, each     *)
(* with its key, value and passage; clean if the value has the form that is  *)
(* required of the key.                                                      *)
OutputShape(o) ==
    \A k \in DOMAIN o.claims : o.claims[k].key \in Extractable /\ o.claims[k].clean \in BOOLEAN

(* A dossier: how many resumes may be meant (one, none, several), the text   *)
(* of the one, the reviewed outputs (at most one) and the cached outcome,    *)
(* what was typed or removed, the columns that hold something, the links and *)
(* the kinds of school that a name contains.                                 *)
ASSUME DossierShapes ==
    \A d \in Dossiers :
        /\ d.meant \in {"one", "none", "several"}
        /\ "none" \notin DOMAIN d.text /\ \A q \in DOMAIN d.text : PassageShape(d.text[q])
        /\ \A o \in d.reviewed : OutputShape(o)
        /\ d.cached.status \in {"none", "running", "failed", "ready"}
        /\ d.cached.status = "ready" => OutputShape(d.cached.output)
        /\ DOMAIN d.typed \subseteq FactKeys /\ DOMAIN d.columns \subseteq Columns
        /\ \A l \in d.links : l.names \subseteq Links /\ l.valid \subseteq Links

ValueInit ==
    /\ dossier \in Dossiers
    /\ reading = "asked" /\ status = "not_extracted"
    /\ grounds = <<>> /\ values = <<>>
-------------------------------------------------------------------------------
(* What the text bears out: grounded_facts *)

Starts == {"education_start_year", "education_start_month"}
Years == {"education_start_year", "education_end_year"}
\* The first date is a start; the last of several is an end, unless it says present.
Endpoint(key, p) ==
    IF key \in Starts /\ p.dates # <<>> THEN {p.dates[1]}
    ELSE IF Len(p.dates) >= 2 /\ ~p.present THEN {p.dates[Len(p.dates)]} ELSE {}
Day(key, p) ==
    IF key = "internship_start_date" /\ p.days # <<>> THEN {p.days[1]}
    ELSE IF Len(p.days) >= 2 THEN {p.days[Len(p.days)]} ELSE {}

BorneOut(c, o) ==
    LET p == dossier.text[c.quote]
    IN  /\ c.quote \in DOMAIN dossier.text /\ c.clean
        /\ c.key \in Schooling => c.quote = o.context
        /\ c.key \in Residence \union Constraints \union {"phone_country_code"} =>
              c.key \in p.speaks
        /\ CASE c.key \in Endpoints ->
                  \E e \in Endpoint(c.key, p) : c.value = IF c.key \in Years THEN e[1] ELSE e[2]
             [] c.key \in Dates -> c.value \in Day(c.key, p)
             [] c.key = "phone_country_code" -> TRUE
             [] OTHER -> c.value \in p.says

\* One entry, of the section on education if there is one, and the current one if there is
\* one.
ContextHolds(context) ==
    LET p == dossier.text[context]
    IN  context # "none" =>
            /\ context \in DOMAIN dossier.text /\ p.degrees = 1
            /\ (\E q \in DOMAIN dossier.text : dossier.text[q].section) => p.section
            /\ (\E q \in DOMAIN dossier.text :
                   LET r == dossier.text[q] IN r.section /\ r.degrees > 0 /\ r.present) => p.present

OutputHolds(o) ==
    /\ ContextHolds(o.context)
    /\ \A k, l \in DOMAIN o.claims : o.claims[k].key = o.claims[l].key => k = l
    /\ \A k \in DOMAIN o.claims : BorneOut(o.claims[k], o)

KeysOf(o) == {o.claims[k].key : k \in DOMAIN o.claims}
ClaimOn(o, key) == o.claims[CHOOSE k \in DOMAIN o.claims : o.claims[k].key = key]

\* A review that no longer holds is passed over, a cached output is not.
Used ==
    LET holding == {o \in dossier.reviewed : OutputHolds(o)}
    IN  IF dossier.meant # "one" THEN {}
        ELSE IF holding # {} THEN holding
        ELSE IF dossier.cached.status = "ready" THEN {dossier.cached.output} ELSE {}

ReadResume ==
    /\ reading = "asked" /\ reading' = "read"
    /\ status' = IF dossier.meant = "several" THEN "selection_required"
                 ELSE IF dossier.meant = "none" THEN "no_resume"
                 ELSE IF \E o \in Used : OutputHolds(o) THEN "ready"
                 ELSE IF Used # {} \/ dossier.cached.status = "failed" THEN "failed"
                 ELSE "not_extracted"
    /\ grounds' = IF \E o \in Used : OutputHolds(o)
                  THEN LET o == CHOOSE o \in Used : TRUE
                       IN  [key \in KeysOf(o) |->
                               [value |-> ClaimOn(o, key).value, quote |-> ClaimOn(o, key).quote]]
                  ELSE <<>>
    /\ UNCHANGED <<dossier, values>>
-------------------------------------------------------------------------------
(* What is shown: build_autofill_profile *)

Typed == {key \in DOMAIN dossier.typed : dossier.typed[key] # "removed"}
LinksFor(key) == {l.value : l \in {l \in dossier.links : key \in l.names \intersect l.valid}}
\* Several links that could be meant are none.
Linked1 == {key \in Links : \E v \in LinksFor(key) : LinksFor(key) = {v}}
FromProfile == DOMAIN dossier.columns \union Linked1
FromResume == DOMAIN grounds \ DOMAIN dossier.typed

Entry(value, source, quote) == [value |-> value, source |-> source, quote |-> quote]
Collected ==
    [key \in FromProfile \union Typed \union FromResume |->
        IF key \in Linked1 THEN Entry(CHOOSE v \in LinksFor(key) : TRUE, "profile", "none")
        ELSE IF key \in FromProfile THEN Entry(dossier.columns[key], "profile", "none")
        ELSE IF key \in Typed THEN Entry(dossier.typed[key], "manual", "none")
        ELSE Entry(grounds[key].value, "resume", grounds[key].quote)]

\* The kind of school that the name of the school says, if it says one.
KindsIn(name) == IF name \in DOMAIN dossier.kinds THEN dossier.kinds[name] ELSE {}
SchoolKind ==
    IF "school" \in DOMAIN Collected /\ "institution_type" \notin DOMAIN dossier.typed
    THEN {k \in KindsIn(Collected["school"].value) : KindsIn(Collected["school"].value) = {k}}
    ELSE {}

\* A student is who is shown with the school and degree of an ongoing entry.
Studies ==
    /\ "current_student" \notin DOMAIN dossier.typed
    /\ {"school", "degree"} \subseteq DOMAIN grounds
    /\ grounds["school"].quote = grounds["degree"].quote
    /\ dossier.text[grounds["school"].quote].ongoing
    /\ \A key \in {"school", "degree"} :
          key \in DOMAIN Collected /\ Collected[key].value = grounds[key].value

Concluded ==
    [key \in DOMAIN Collected \union {"institution_type" : k \in SchoolKind}
                \union (IF Studies THEN {"current_student"} ELSE {}) |->
        IF key = "institution_type" /\ SchoolKind # {}
        THEN LET s == Collected["school"]
             IN  Entry(CHOOSE k \in SchoolKind : TRUE, s.source,
                       IF s.quote = "none" THEN s.value ELSE s.quote)
        ELSE IF key = "current_student" /\ Studies
        THEN Entry("Yes", "resume", grounds["school"].quote)
        ELSE Collected[key]]

ShowValues ==
    /\ reading = "read" /\ reading' = "shown"
    /\ values' = [key \in DOMAIN Concluded
                             \union {a \in DOMAIN Alias : Alias[a] \in DOMAIN Concluded} |->
                     Concluded[IF key \in DOMAIN Alias THEN Alias[key] ELSE key]]
    /\ UNCHANGED <<dossier, status, grounds>>

ValueNext == ReadResume \/ ShowValues
ValueSpec == ValueInit /\ [][ValueNext]_valueVars
-------------------------------------------------------------------------------
(* Properties *)

OfSource(source) == {key \in DOMAIN values : values[key].source = source}

\* A value of a resume is in a passage of its text, which speaks of what it is put for;
\* what is said of an education is of one entry, and no entry that goes on has ended
\* (autofill_facts.py:1 "never infer hiring qualifications").
ResumeValuesAreGrounded ==
    LET told == OfSource("resume") \ Derived
    IN  /\ \A key \in told : values[key].quote \in DOMAIN dossier.text
        /\ \A key \in told \intersect (Residence \union Constraints) :
              key \in dossier.text[values[key].quote].speaks
        /\ \A key, other \in told \intersect Schooling :
              /\ values[key].quote = values[other].quote
              /\ dossier.text[values[key].quote].degrees = 1
        /\ \A key \in told \intersect (Endpoints \ Starts) :
              LET p == dossier.text[values[key].quote] IN ~p.present /\ Len(p.dates) >= 2

\* What the user typed is shown and what the user removed is not, whatever a resume says
\* or would let one conclude, unless the profile's own columns or links say more.
UserDecides ==
    reading = "shown" => \A key \in DOMAIN dossier.typed \ FromProfile :
        IF key \in Typed
        THEN key \in DOMAIN values /\ values[key] = Entry(dossier.typed[key], "manual", "none")
        ELSE key \notin DOMAIN values

\* A conclusion is drawn only from what is shown: the kind of a school from its name,
\* that the user studies from the school and degree of an ongoing entry of the resume;
\* a preference is never concluded.
ConclusionsAreShown ==
    /\ \A key \in ({"institution_type"} \intersect DOMAIN values) \ Typed :
          "school" \in DOMAIN values /\ values[key].value \in KindsIn(values["school"].value)
    /\ \A key \in ({"current_student"} \intersect DOMAIN values) \ Typed :
          /\ dossier.text[values[key].quote].ongoing
          /\ \A k \in {"school", "degree"} \intersect OfSource("resume") :
                values[k].quote = values[key].quote
          /\ {"school", "degree"} \subseteq DOMAIN values
    /\ OfSource("resume") \intersect Preferences = {}

\* The facts of a resume are all those of one output or none, and none that are called
\* ready (autofill_facts.py:500).
AllOrNothing ==
    reading # "asked" /\ DOMAIN grounds # {} =>
        status = "ready" /\ \E o \in Used : OutputHolds(o) /\ DOMAIN grounds = KeysOf(o)
===============================================================================
