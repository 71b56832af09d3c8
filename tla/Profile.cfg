\* What is made of boards and a profile: stored postings, resumes, matching, paid
\* runs, review, advice, mappings of forms, drafted answers and drafts.
SPECIFICATION ProfileSpec
CONSTANTS
    Files = {f1, f2}
    Contents = {c}
    Extractions = {x, y}
    Keys = {k}
    NoContent = NoContent
    Nobody = Nobody
    Deleted = Deleted
    VacancyCount = 2
    Skills = {"s", "g", "t"}
    General = {"g"}
    Atomic = {"s", "g"}
    Entries <- MCEntries
    Units <- MCUnits
    Content <- MCContent
    Corrected <- MCCorrected
    Reviewed = 1
    Interns = {1}
    Limit = 1
    Requests = {1, 2}
    Jobs = {"j1", "j2"}
    Profiles = {p}
    Unready = u
    Postings <- MCPostings
    Closed = Closed
    Timeout = 1
    LeaseFloor = 1
    Margin = 1
    History = 2
    Shortlist = 2
    MaxTime = 2
    Answers <- MCAnswers
    Batches <- MCBatches
    Sources = {"i", "j", "k"}
    Html = {"i"}
    Boards = {"InternSG", "ats"}
    BoardOf <- MCBoardOf
    Ids = {1, 2, 3}
    Titles = {"a", "b"}
    Barred = {1}
    PageSize = 2
    LastPage = 2
    Limits <- MCLimits
    Retries <- MCRetries
    MaxEdits = 2
    MaxCrawls = 2
    Dossiers <- MCDossiers
    Askers = {a1, a2}
    People = {"o", "q"}
    Forms <- MCForms
    Answerable <- MCAnswerable
    Suggested <- MCSuggested
    Lifetime = 1
    Capacity = 1
    LastHour = 1
    Inquiries <- MCInquiries
    Warmings <- MCWarmings
INVARIANTS PaidForOnce ConclusionsAreEarned
PROPERTIES  ProfileSettles
\* Requests are bounded and an answer is judged once: the system may stop.
CHECK_DEADLOCK FALSE
