-------------------------------- MODULE ProfileMC --------------------------------
(***************************************************************************)
(* What is made of job boards and of a user's profile: the stored postings *)
(* of an InternSG board and of a board that two sources name, the facts    *)
(* taken from resumes, the comparison with jobs by rules, the paid         *)
(* comparison by a model, the checks of what that model said and the       *)
(* advice drawn from it; the mapping of a form to saved facts, the answers *)
(* drafted to its questions and the drafts prepared for a job.  Each part  *)
(* reads what another saved and compares it whole, as its own module says  *)
(* with its inputs; every behaviour is one part's.                         *)
(***************************************************************************)
EXTENDS ResumeFacts, JobMatching, RecommendationRuns, AssessmentReview, ApplicationAdvice,
        JobStore, AutofillValues, FormPlan, QuestionAnswers, CommonDrafts

VARIABLE part \* the part whose behaviour this is
profileVars == <<resumeVars, matchVars, recommendationVars, reviewVars, adviceVars>>
answerVars == <<valueVars, planVars, inquiryVars, draftVars>>
profileMCVars == <<part, profileVars, storeVars, answerVars>>
-------------------------------------------------------------------------------
(* Inputs *)

Text(t, r) == [text |-> t, revision |-> r]
MCPostings == ("j1" :> {Text(1, 1), Text(2, 2)}) @@ ("j2" :> {Text(1, 1)})

Skill(s, q) == [kind |-> "skill", skill |-> s, quote |-> q, qualifier |-> FALSE]
Fact(s, q) == [operator |-> "fact", quote |-> q, atoms |-> {Skill(s, q)}]
Group(q, atoms) == [operator |-> "all_of", quote |-> q, atoms |-> atoms]
Duty(p, h) == [quote |-> "bare", activity |-> "a", priority |-> p, heading |-> h]
MCEntries ==
    {[skill |-> "s", claim |-> c] : c \in Claims}
       \union {[skill |-> "g", claim |-> "exact"]}
MCUnits == {[activity |-> "a", claim |-> c] : c \in {"done", "denied"}}
MCContent ==
    << [rows |-> {Fact("s", "bare"), Fact("t", "cut"), Group("doubtful", {Skill("s", "bare")}),
                  Fact("s", "clipped")},
        duties |-> {Duty("secondary", "secondary")}, named |-> {"s"}],
       [rows |-> {Group("cut", {Skill("s", "bare"), Skill("g", "bare")}), Fact("g", "bare")},
        duties |-> {Duty("primary", "none"), Duty("primary", "conditional")}, named |-> {"t"}] >>
MCCorrected ==
    [rows |-> {Group("bare", {Skill("s", "bare")}),
               Group("qualified", {Skill("s", "qualified"), Skill("t", "bare")})},
     duties |-> {Duty("secondary", "none")}, named |-> {}]

Condition(claim, passage, denies, doubts, timing) ==
    [claim |-> claim, passage |-> passage, denies |-> denies, doubts |-> doubts,
     timing |-> timing]
Conditions ==
    {Condition("supported", p, FALSE, d, "none") :
        p \in {"none", "displayed", "elsewhere"},
        d \in {{}, {"subject"}, {"activity"}, {"constraint", "years", "degree"},
               {"construction"}}}
    \union {Condition("gap", "displayed", d, {}, "none") : d \in BOOLEAN}
    \union {Condition("supported", "displayed", FALSE, {}, t) : t \in {"course", "explicit"}}
    \union {Condition("unknown", "none", FALSE, {}, "none"),
            Condition("unknown", "foreign", FALSE, {}, "none")}
Paired == {c \in Conditions : /\ c.doubts \in {{}, {"degree", "constraint", "years"}}
                              /\ c.passage \notin {"foreign", "elsewhere"}
                              /\ c.timing = "none"}
MCAnswers ==
    {a \in [category : Categories, claim : Outcomes, operator : Operators, cited : Cited,
            denies : BOOLEAN, timing : {"none", "course", "explicit"},
            doubts : {{}} \union {{r} : r \in DOMAIN Applies \ {"subject"}},
            checks : {<<c>> : c \in Conditions} \union (Paired \X Paired)] :
        /\ a.denies => a.claim = "gap"
        /\ a.timing # "none" => a.category = "education"
        /\ \A r \in a.doubts : a.category \in Applies[r] /\ a.claim = "supported"
        /\ Len(a.checks) = 2 => a.doubts = {} /\ a.timing = "none"}

Row(c, o, opt, m, z, t, p, b) ==
    [category |-> c, outcome |-> o, optional |-> opt, mandatory |-> m, zero |-> z,
     tool |-> t, part |-> p, basis |-> b]
Plain(c, o, b) == Row(c, o, "no", FALSE, FALSE, FALSE, FALSE, b)
Mandatory == Row("skill", "unknown", "no", TRUE, FALSE, FALSE, FALSE, 0)
PartOnly == Row("experience", "unknown", "no", FALSE, FALSE, FALSE, TRUE, 0)
Rows1 ==
    {Row("skill", "supported", o, FALSE, FALSE, t, FALSE, b) :
        o \in {"no", "yes"}, t \in BOOLEAN, b \in {1, 2}}
    \union {Row("experience", "unknown", o, FALSE, z, FALSE, p, 0) :
        o \in {"no", "nearby", "yes"}, z \in BOOLEAN, p \in BOOLEAN}
    \union {Row("education", u, o, FALSE, FALSE, FALSE, FALSE, 3) :
        u \in Outcomes, o \in {"no", "nearby", "yes"}}
    \union {Mandatory, Plain("responsibility", "unknown", 0)}
Rows2 == {Plain("skill", "supported", 1), Plain("experience", "supported", 2),
          Plain("education", "gap", 3), PartOnly}
Rows3 == Rows2 \union {Plain("skill", "supported", 2), Mandatory,
                       Row("skill", "supported", "yes", FALSE, FALSE, FALSE, FALSE, 4)}
Assessed(rows, a, d, p, t, r) ==
    [rows |-> rows, activities |-> a, direction |-> d, proposed |-> p, timing |-> t,
     rank |-> r]
Careers == {<<"none", "consider">>, <<"direct", "priority_apply">>,
            <<"adjacent", "priority_apply">>, <<"low", "priority_apply">>,
            <<"undetermined", "consider">>}
Alone ==
    {<<Assessed(rows, a, c[1], c[2], FALSE, 1)>> :
        rows \in UNION {[1..n -> Rows1] : n \in 1..2}, a \in {{}, {1}},
        c \in Careers \ {<<"low", "priority_apply">>}}
OfThree == {<<Assessed(rows, {}, "direct", "priority_apply", FALSE, 1)>> : rows \in [1..3 -> Rows3]}
Pairs ==
    {<<Assessed(r1, {}, c[1], c[2], t, r), Assessed(r2, {}, d[1], d[2], FALSE, 3 - r)>> :
        r1 \in Rows2 \X Rows2, r2 \in Rows2 \X Rows2, c \in Careers, d \in Careers,
        t \in BOOLEAN, r \in 1..2}
MCBatches ==
    {b \in Alone : b[1].activities = {}
                   \/ b[1].rows[1].category \in {"skill", "experience", "responsibility"}}
       \union OfThree \union Pairs

MCBoardOf == ("i" :> "InternSG") @@ ("j" :> "ats") @@ ("k" :> "ats")
MCLimits == ("i" :> {<<3, 2>>}) @@ ("j" :> {<<2, 1>>, <<2, 2>>}) @@ ("k" :> {<<2, 2>>})
MCRetries == ("i" :> 1) @@ ("j" :> 0) @@ ("k" :> 0)
Crawling == [internsg |-> {"i"}, boards |-> {"j", "k"}]
ASSUME CrawlNames == \A p \in DOMAIN Crawling : Crawling[p] \subseteq Sources

Course(dates, present, degrees, section) ==
    [dates |-> dates, days |-> <<>>, present |-> present, ongoing |-> present, degrees |-> degrees,
     section |-> section, speaks |-> {}, says |-> {"NUS", "MSc"}]
Contact ==
    [Course(<<>>, FALSE, 0, FALSE) EXCEPT !.says = {"SG", "Ann"}, !.days = <<"d1", "d2">>,
        !.speaks = {"current_city", "internship_end_date"}]
Past == Course(<<<<"2020", "none">>, <<"2024", "06">>>>, FALSE, 1, TRUE)
Current == Course(<<<<"2023", "08">>, <<"2024", "01">>>>, TRUE, 1, TRUE)
MCTexts == {("contact" :> Contact) @@ ("now" :> Current) @@ ("past" :> Past),
            ("contact" :> Contact) @@ ("past" :> Past), ("past" :> [Past EXCEPT !.section = FALSE])}
Claim1(key, v, q) == [key |-> key, value |-> v, quote |-> q, clean |-> v # "?"]
Extras ==
    {Claim1("education_end_year", "2024", "now"), Claim1("education_end_year", "2024", "past"),
     Claim1("education_end_month", "06", "past"), Claim1("current_city", "SG", "contact"),
     Claim1("current_country", "SG", "contact"), Claim1("school", "NUS", "now"),
     Claim1("internship_end_date", "d2", "contact"), Claim1("full_name", "Ann", "contact"),
     Claim1("internship_start_date", "d2", "contact"), Claim1("full_name", "?", "contact")}
Output(context, claims) == [context |-> context, claims |-> claims]
MCOutputs ==
    {Output(c, <<Claim1("school", "NUS", c), Claim1("degree", "MSc", d), e>>) :
        c \in {"now", "past"}, d \in {"now", "past"}, e \in Extras}
    \union {Output("none", <<e>>) : e \in Extras} \union {Output("contact", <<>>)}
Typings == {<<>>, ("school" :> "NP"), ("school" :> "NUS") @@ ("internship_type" :> "credit"),
            ("institution_type" :> "removed") @@ ("current_student" :> "No"),
            ("degree" :> "removed") @@ ("full_name" :> "Bo")}
MCColumns == {<<>>, ("full_name" :> "Ann") @@ ("contact_email" :> "me")}
Site(v, names) == [value |-> v, names |-> names, valid |-> {"github", "portfolio"}]
MCSites == {{Site("g", {"github", "linkedin"})}, {Site("g", {"github"}), Site("h", {"github"})}}
Kinds1 == ("NUS" :> {"University"}) @@ ("NP" :> {"University", "Polytechnic"})
Dossier(m, t, r, cached, typed, columns, links, kinds) ==
    [meant |-> m, text |-> t, reviewed |-> r, cached |-> cached, typed |-> typed,
     columns |-> columns, links |-> links, kinds |-> kinds]
Extraction(st) == [status |-> st, output |-> Output("none", <<>>)]
MCDossiers ==
    {Dossier(m, <<>>, {}, Extraction("none"), ty, <<>>, {}, <<>>) :
        m \in {"none", "several"}, ty \in Typings}
    \union {Dossier("one", t, {}, Extraction(st), ty, <<>>, {}, Kinds1) :
        t \in MCTexts, ty \in Typings, st \in {"none", "running", "failed"}}
    \union {Dossier("one", t, r, [status |-> "ready", output |-> o], ty, c, {}, Kinds1) :
        t \in MCTexts, ty \in Typings, o \in MCOutputs, c \in MCColumns,
        r \in {{}, {Output("now", <<Claim1("school", "NUS", "now")>>)}}}
    \union {Dossier("one", t, {}, [status |-> "ready", output |-> o], <<>>, <<>>, l, Kinds1) :
        t \in MCTexts, o \in MCOutputs, l \in MCSites}

Labelled(k, rule, w) ==
    [kind |-> k, manual |-> FALSE, yesNo |-> FALSE, rule |-> rule, wording |-> w]
SchoolAsked == Labelled("text", "school", {})
TextAsked == Labelled("text", "none", {})
DateAsked == Labelled("date", "none", {})
VisaAsked == Labelled("select", "none", {"sensitive"})
MCForms == {{SchoolAsked, TextAsked, VisaAsked}, {TextAsked, DateAsked}, {SchoolAsked}}
MCAnswerable == {{"school", "email"}, {"school", "internship_start_date"}}
MCSuggested ==
    {{<<TextAsked, "school">>, <<DateAsked, "internship_start_date">>}, {<<VisaAsked, "school">>},
     {<<TextAsked, "email">>, <<TextAsked, "school">>}}

Reads(is, shape, size) ==
    [is |-> is, shape |-> shape, size |-> size, month |-> 0, name |-> "none", tail |-> "none",
     degree |-> <<"none", "none">>]
February(is, shape) == [Reads(is, shape, 2) EXCEPT !.month = 2, !.name = "February"]
Degree(is, title) == [Reads(is, "text", 6) EXCEPT !.degree = <<"master", title>>]
School == Reads("NUS", "text", 3)
Option(v, l) == [value |-> Reads(v, "text", 1), label |-> l]
MonthOptions ==
    <<Option("1", Reads("January", "text", 7)), Option("2", February("February", "text"))>>
DegreeOptions == <<Option("a", Degree("MSc", "msc")), Option("b", Degree("Master", "general"))>>
TwiceOptions == <<Option("b", Degree("Master", "general")), Option("b", School)>>
StudentOptions == <<Option("y", Reads("yes", "text", 3)), Option("n", Reads("no", "text", 2))>>
Asked(k, rule, about, options, searchable, room) ==
    [kind |-> k, manual |-> FALSE, yesNo |-> options = StudentOptions, rule |-> rule,
     wording |-> {}, alias |-> "none", about |-> about, broad |-> about = {"residence"},
     options |-> options, searchable |-> searchable, room |-> room]
TextQuestion == Asked("text", "none", {}, <<>>, FALSE, 9999)
GradeQuestion == Asked("number", "none", {"grade"}, <<>>, FALSE, 9)
MCQuestions ==
    {TextQuestion, GradeQuestion, [TextQuestion EXCEPT !.wording = {"protected"}, !.alias = "email"],
     [TextQuestion EXCEPT !.alias = "summary"]}
    \union {Asked("text", "none", about, <<>>, FALSE, 700) :
               about \in {{"employer"}, {"residence"}, {"website", "github"}}}
    \union {Asked("select", rule, {"endpoint", "month"}, MonthOptions, FALSE, 9) :
               rule \in {"none", "education_start_month"}}
    \union {Asked("select", rule, {}, DegreeOptions, FALSE, 9) :
               rule \in {"degree", "none", "internship_type"}}
    \union {Asked("select", "current_student", {}, StudentOptions, FALSE, 9),
            Asked("combobox", "school", {}, <<>>, TRUE, 9),
            Asked("combobox", "none", {}, <<>>, TRUE, 2),
            Asked("combobox", "none", {}, TwiceOptions, FALSE, 9)}

Excerpt(source, ref) == [source |-> source, issued |-> ref # 0, ref |-> ref]
Selects(d, e, t) ==
    [disposition |-> d, key |-> "none", excerpts |-> e, choice |-> NoChoice, short |-> TRUE,
     text |-> t, bare |-> FALSE, header |-> FALSE, doubts |-> {}]
Cites(o, t, n, derived) ==
    [option |-> o, cites |-> t, quoted |-> o # "n", normal |-> n, derived |-> derived]
Resume1 == <<Excerpt("resume", 1)>>
BothCited == <<Excerpt("resume", 1), Excerpt("job", 2)>>
Shapeless ==
    {[Selects("saved_fact", <<>>, School) EXCEPT !.key = key] :
        key \in {"none", "degree", "current_city", "education_start_month"}}
    \union {Selects("missing", e, School) : e \in {<<>>, Resume1}}
TextSelections(q) ==
    {[Selects(d, e, t) EXCEPT !.bare = b, !.header = ~b, !.doubts = doubts] :
        d \in {"resume_evidence", "role_connection"}, b \in BOOLEAN, doubts \in SUBSET q.about,
        e \in {<<>>, Resume1, BothCited, <<Excerpt("job", 2)>>, Resume1 \o Resume1,
               <<Excerpt("resume", 0)>>},
        t \in {School, Reads("3.5", "number", 3), Reads("built", "text", 695)}}
ChoiceSelections(q) ==
    {[Selects(d, Resume1, t) EXCEPT !.choice = c, !.short = (t = School), !.doubts = doubts] :
        d \in {"resume_evidence", "role_connection"}, t \in {School, Reads("built", "text", 695)},
        doubts \in SUBSET q.about \union {{"derivation", "degree"}},
        c \in {NoChoice, Cites("2", February("02", "number"), "month", FALSE),
               Cites("a", Degree("MSc", "msc"), "country", FALSE),
               Cites("b", Degree("MSc", "msc"), "degree", FALSE),
               Cites("b", Degree("Master", "general"), "literal", FALSE),
               Cites("none", School, "literal", FALSE), Cites("y", School, "literal", TRUE),
               Cites("n", School, "literal", TRUE)}}
MCFacts ==
    ("email" :> Reads("me", "text", 2)) @@ ("current_city" :> Reads("SG", "text", 2))
    @@ ("degree" :> Degree("MSc", "msc")) @@ ("school" :> School)
    @@ ("education_start_month" :> February("02", "number"))
Inquiry(form, known1, plan, mappings, whole) ==
    [form |-> form, facts |-> known1, plan |-> plan, mappings |-> mappings, answered |-> whole,
     truncated |-> mappings # {}]
MCInquiries ==
    \* A warm-up asks no question.
    {Inquiry(<<>>, <<>>, <<>>, {}, TRUE)}
    \union UNION {{Inquiry(<<q>>, f, plan, {}, TRUE) : f \in {<<>>, MCFacts},
               plan \in {<<>>} \union {<<s>> : s \in Shapeless
                           \union IF Choice(q) THEN ChoiceSelections(q) ELSE TextSelections(q)}} :
           q \in MCQuestions}
    \union {Inquiry(<<TextQuestion, q>>, MCFacts, <<s, t>>, m, w) :
               q \in {TextQuestion, GradeQuestion}, w \in BOOLEAN,
               m \in {{}, {<<1, "email">>}, {<<1, "email">>, <<1, "school">>}, {<<2, "github">>}},
               s \in Shapeless \union {Selects("role_connection", BothCited, School)},
               t \in {Selects("missing", <<>>, School), Selects("resume_evidence", Resume1, School),
                      [Selects("resume_evidence", Resume1, School) EXCEPT !.doubts = {"grade"}]}}

Passage(field, size) == [field |-> field, size |-> size, performed |-> field = "experience"]
Picks(P, J) == {[profile |-> p, jobs |-> j] : p \in P, j \in J}
MCDrafts ==
    LET Intros == Picks({<<1>>}, {<<>>, <<1>>})
        Experiences == Picks({<<1>>, <<2, 3>>, <<1, 2, 3>>, <<1, 1>>}, {<<>>})
        Motivations == Picks({<<1>>, <<2, 3>>, <<1, 2, 3>>, <<1, 1>>}, {<<>>, <<1>>, <<2, 1>>})
    IN  {<<>>} \union {"intro" :> i : i \in Intros}
        \union {("intro" :> i) @@ ("experience" :> e) : i \in Intros, e \in Experiences}
        \union {("intro" :> i) @@ ("motivation" :> m) : i \in Intros, m \in Motivations}
        \union {("intro" :> i) @@ ("experience" :> e) @@ ("motivation" :> m) :
                   i \in Intros, e \in Experiences, m \in Motivations}
MCWarmings ==
    {[profile |-> p, jobs |-> j, saved |-> {k \in {"intro"} : j = <<>>}, drafts |-> d,
      answered |-> d # <<>>] :
        p \in {<<>>, <<Passage("skills", 450)>>,
               <<Passage("skills", 100), Passage("experience", 400), Passage("experience", 250)>>,
               <<Passage("experience", 650), Passage("experience", 300)>>},
        j \in {<<>>, <<250>>, <<270>>, <<300, 240>>, <<30, 20>>}, d \in MCDrafts}
-------------------------------------------------------------------------------
(* One part at a time *)

\* Row ids are random: the request that begins first has the one that sorts last.
LastIdFirst == at'[1] # "idle" => at'[2] # "idle"
\* A row of another job is one of the first job alone: the second is compared beside it.
SecondBesideFirst == \A r \in Requests : DOMAIN draft'[r].identity.jobs # {"j2"}

RunsAtRest ==
    /\ RecommendationInit
    /\ profile = Unready
    /\ \A j \in Jobs : posting[j] = CHOOSE p \in Postings[j] : TRUE
SomeAnswer == CHOOSE a \in Answers : AnswerShape(a)
SomeBatch == CHOOSE b \in Batches : TRUE
NothingReviewed == answer = SomeAnswer /\ AnswerInit
NoBatch == batch = SomeBatch /\ AdviceInit
NothingJudged == NothingReviewed /\ NoBatch /\ RunsAtRest

NoBoards == board = [b \in Boards |-> [e \in Ids |-> Gone]] /\ StoreInit
\* Two publications at once: a board of two postings, one of which may change.  On the
\* other board a third posting, if there is one, has the title of the first.
SmallBoard ==
    /\ part = "boards" => /\ edits' <= 1
                          /\ \A e \in Ids : board'["ats"][e] # Gone =>
                                               e < 3 /\ board'["ats"][e].title = "a"
    /\ part = "internsg" /\ board'["InternSG"][3] # Gone => board'["InternSG"][3].title = "a"
\* The board a part reads has postings 1 and 2 when it begins, the first titled "a":
\* titles are only compared.
OneBoard ==
    /\ StoreInit
    /\ \A s \in Sources, e \in Ids :
          /\ Shows(BoardOf[s], e) <=> s \in Crawling[part] /\ e \in {1, 2}
          /\ Shows(BoardOf[s], e) /\ (e = 1 \/ part = "boards") => board[BoardOf[s]][e].title = "a"

\* Files and extractions are only told apart: they come in one order.
InOrder ==
    /\ \A f \in Files : file'[f].content # NoContent =>
          file'[CHOOSE g \in Files : TRUE].content # NoContent
    /\ \A x \in Extractions : doing'[x] # "idle" =>
          doing'[CHOOSE y \in Extractions : TRUE] # "idle"

\* Nobody asks for a plan, an answer or a draft.
SomeInquiry == CHOOSE n \in Inquiries : n.form = <<>>
SomeWarming == CHOOSE w \in Warmings : TRUE
SomeFacts == [o \in People |-> CHOOSE f \in Answerable : TRUE]
SomeDossier == CHOOSE d \in Dossiers : d.meant = "none" /\ d.typed = <<>>
NoValues == dossier = SomeDossier /\ ValueInit
NoPlans == facts = SomeFacts /\ PlanInit
NoQuestions == inquiry = SomeInquiry /\ InquiryInit
NoWarming == warming = SomeWarming /\ DraftInit
NoDrafts == NoQuestions /\ NoWarming
NoAnswers == NoValues /\ NoPlans /\ NoDrafts

ProfileInit ==
    /\ ResumeInit /\ MatchInit
    /\ \/ part \in {"resumes", "matching"} /\ NothingJudged /\ NoBoards /\ NoAnswers
       \/ /\ part = "runs" /\ NothingReviewed /\ NoBatch /\ NoBoards /\ NoAnswers
          /\ RecommendationInit
       \/ part = "review" /\ NoBatch /\ RunsAtRest /\ NoBoards /\ NoAnswers /\ AnswerInit
       \/ part = "advice" /\ NothingReviewed /\ RunsAtRest /\ NoBoards /\ NoAnswers /\ AdviceInit
       \/ part \in DOMAIN Crawling /\ NothingJudged /\ NoAnswers /\ OneBoard
       \/ part = "values" /\ NothingJudged /\ NoBoards /\ NoPlans /\ NoDrafts /\ ValueInit
       \/ part = "plans" /\ NothingJudged /\ NoBoards /\ NoValues /\ NoDrafts /\ PlanInit
       \/ /\ part = "answers" /\ NothingJudged /\ NoBoards /\ NoValues /\ NoPlans /\ NoWarming
          /\ InquiryInit
       \/ /\ part = "drafts" /\ NothingJudged /\ NoBoards /\ NoValues /\ NoPlans /\ NoQuestions
          /\ DraftInit

ProfileNext ==
    \/ /\ part = "resumes" /\ ResumeNext /\ InOrder
       /\ UNCHANGED <<part, matchVars, recommendationVars, reviewVars, adviceVars, storeVars,
                      answerVars>>
    \/ /\ part = "matching" /\ MatchNext
       /\ UNCHANGED <<part, resumeVars, recommendationVars, reviewVars, adviceVars, storeVars,
                      answerVars>>
    \/ /\ part = "runs" /\ RecommendationNext /\ LastIdFirst /\ SecondBesideFirst
       /\ UNCHANGED <<part, resumeVars, matchVars, reviewVars, adviceVars, storeVars, answerVars>>
    \/ /\ part = "review" /\ ReviewNext
       /\ UNCHANGED <<part, resumeVars, matchVars, recommendationVars, adviceVars, storeVars,
                      answerVars>>
    \/ /\ part = "advice" /\ AdviceNext
       /\ UNCHANGED <<part, resumeVars, matchVars, recommendationVars, reviewVars, storeVars,
                      answerVars>>
    \/ /\ part \in DOMAIN Crawling /\ \E s \in Crawling[part] : StoreStep(s)
       /\ SmallBoard
       /\ UNCHANGED <<part, profileVars, answerVars>>
    \/ /\ part = "values" /\ ValueNext
       /\ UNCHANGED <<part, profileVars, storeVars, planVars, inquiryVars, draftVars>>
    \/ /\ part = "plans" /\ PlanNext
       /\ UNCHANGED <<part, profileVars, storeVars, valueVars, inquiryVars, draftVars>>
    \/ /\ part = "answers" /\ InquiryNext
       /\ UNCHANGED <<part, profileVars, storeVars, valueVars, planVars, draftVars>>
    \/ /\ part = "drafts" /\ DraftNext
       /\ UNCHANGED <<part, profileVars, storeVars, valueVars, planVars, inquiryVars>>

\* Each part's fairness holds trivially of a part that stays where it starts.
ProfileSpec ==
    ProfileInit /\ [][ProfileNext]_profileMCVars /\ ResumeFairness /\ RecommendationFairness
    /\ StoreFairness
-------------------------------------------------------------------------------
\* The model is called once for the same bytes, once for the same comparison, within the
\* lease of its row, and for one form at a time; each row holds values of its columns, also
\* after a loss (autofill_facts.py:668, ai_recommendations/service.py:740,
\* autofill_assistant.py:210).
PaidForOnce ==
    /\ ResumeTypes /\ RecommendationTypes
    /\ OneCallPerContent /\ PaidOnce /\ LeaseOutlivesCall
    /\ part = "plans" => OneCallPerPlan

\* What a page is told follows from what was saved: an assessment from a run of the
\* current input, a conclusion from a passage that is displayed, an advice and its
\* order from the conclusions, a match from explicit and current evidence, a stored
\* posting from its own page, a value from the text or from the user, a mapping from the
\* profile it is for, an answer or a draft from the applicant's own facts and passages.
ConclusionsAreEarned ==
    /\ ReviewTypes /\ MatchTypes
    /\ part = "runs" => AssessmentsAgree
    /\ part = "review" => SupportIsGrounded /\ ConditionsAreGrounded /\ GapIsContradiction
    /\ part = "advice" => PriorityIsEarned /\ EvidenceNeverHurts /\ OrderRespectsAdvice
    /\ part = "matching" => EvidenceIsExplicit /\ ProposedIsCurrent /\ GapsComeLast
    /\ part \in DOMAIN Crawling =>
          StoreTypes /\ KeysAreUnique /\ RowsAreOwn /\ RefusalEndsRequests
    /\ part = "values" => /\ ResumeValuesAreGrounded /\ UserDecides /\ ConclusionsAreShown
                          /\ AllOrNothing
    /\ part = "plans" => PlansAreOwn
    /\ part = "answers" => /\ DraftsAreSupported /\ AnswersFit /\ MissingIsMissing
                           /\ UserComesFirst /\ AskedIsSettled
    /\ part = "drafts" => /\ DraftsAreTheApplicants /\ DraftsKeepTheBudget
                          /\ RequiredIsPossible /\ RequiredIsPresented

\* What was finished, typed or resolved stays: a late answer changes no finished
\* run and undoes only what was written while it was under way, more evidence never
\* weakens a match, and a posting closes only when it is gone
\* (ai_recommendations/service.py:860, autofill_facts.py:777).
NothingIsUndone ==
    FinishedRunsStay /\ EditsLostOnlyToRaces /\ EvidenceHelps /\ ResolvedIsKept
    /\ OnlyGoneIsClosed /\ CompleteIsExact

\* Runs, reservations and collections end with the request that made them, late
\* answers, failures and waits for each other included
\* (ai_recommendations/service.py:860, autofill_facts.py:676).
CallUnderWay == RunUnderWay \/ ReservationHeld \/ Collecting
ProfileSettles == CallUnderWay ~> ~CallUnderWay
===============================================================================
