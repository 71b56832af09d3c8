# JobPilot: formal models

JobPilot collects job postings, extracts their requirements with a language model,
recommends them to a candidate, prepares answers to application forms, and sends
or records applications. The backend is FastAPI and SQLAlchemy on PostgreSQL
(`src/backend/app`), the web interface is React (`src/frontend`), and a browser
extension fills forms on employers' pages (`src/extension`).

The models here cover the places where several requests, workers or a crash meet on
shared rows. Every module is translated from the code it names; `PROJECT.json` maps
each definition to the lines it stands for.

- [System inventory](#system-inventory)
- [Modules and their code](#modules-and-their-code)
- [Model checking](#model-checking)
- [Disagreements found](#disagreements-found)
- [Proofs](#proofs)
- [Limits](#limits)
- [Plan](#plan)

## System inventory

| Part | State | Operations | Hard behaviour | Correct means |
|---|---|---|---|---|
| Source collection (`ingestion/locks.py`, `service.py`, `scheduler.py`) | source row, lease row, crawl runs | scheduled and manual runs, heartbeat, release, schedule change | stale workers, crash, lock order, lease expiry | one worker's outcome counts, nothing is published by a stale one, status and next slot agree with the runs |
| Email applications (`email_applications/`) | one row per candidate and posting | create, edit, preview, send | claim before SMTP, ambiguous outcome, crash, edits between review and send | one dispatch, exactly what was shown, status never claims too much |
| Job extraction (`job_extraction/`, `extract_saved_jobs.py`) | run rows with a unique active key | extract, repair, recover | key contention, posting rewritten, late worker | result belongs to the input on record, no repeated paid call |
| Prepared answers (`answer_preparation/`) | cache row per context, shared mappings per profile | prepare, warm up, take over | unlocked model call, old claims, context changed during it | each question paid for once, settled once, shared only when verified |
| Recorded applications (`applications/`, `assistant/service.py`) | one row per user and posting with its confirmed form | create (manual, assistant), change status, read answers | read, check, write without a lock | one record, dated, complete answers, terminal states final |
| Extension popup (`extension/popup*.js`, `ats-page.js`, `page.js`, `widgets.js`) | one preview with its editors, one preparation per preview, one operation at a time | load, prepare, edit, fill | late answers, account, page or saved details changed after an await | late answers replace no edit and reach no other preview, an approved answer is sent once, a report claims no more than it knows |
| Page bridge (`application-bridge.js`, `ApplicationPreparation.tsx`) | the page's click, the review of an inspected form | inspect, fill | worker killed, script running late, two deadlines | a review is used once, for the form and details it was made of; nothing is written after the page gave up |
| Link and sign-in (`connection.js`, `ConnectExtensionPage.tsx`, `auth/extension_router.py`) | logins, grants with their codes, the extension's session and pending request | connect, confirm, exchange, disconnect, sign out | sign-out, disconnection and a new request between a check and a write; calls served late | a login that ended has no usable grant, no grant is left that nobody holds |
| Form page and mapping (`ApplicationFormPage.tsx`, `assistant/`) | draft, confirmations, the account it began with | load, confirm, rewrite, save | other account in another tab, a save that timed out arrives later | a record is what its account saw and confirmed |
| Resume facts and profile (`profiles/`) | entries with cached outcome and review, details column | upload, delete, type, select, extract | reservation shared by copies, columns written back whole | one call for the same bytes, edits lost only to true races |
| AI recommendations (`ai_recommendations/`) | runs with lease and result | request, expire, read, review, advise | unique input, late result, several runs of one job | one call per comparison, finished runs stay, conclusions rest on displayed evidence |
| Job store (`ingestion/*adapter.py`, `db_repository.py`) | postings by source, the open transaction | collect, upsert, close missing | board changes between two requests, two sources publish one board | only what is gone is closed, keys are unique, a row tells of its own posting |
| Matching (`job_matching.py`, `job_recommendations.py`, `responsibility_matching.py`, `skill_signals.py`) | none: reads profile, runs and the configured review | score, rank | stale runs, configured review, limits, ties | explicit evidence only, current text only, more evidence never harms |
| Mapping of forms (`autofill_assistant.py`) | plans and pending calls in memory | ask, answer, cancel, expire | requests for one form meet, cancelled and restarted calls, profile edited meanwhile | one call per form and profile, a plan told is of its own profile |
| Values and answers (`autofill_facts.py`, `answer_preparation/service.py`) | none: judge an output or a plan and what is saved | ground, choose, draft, report | one malformed claim spoils the rest or not, precedence of user, profile and resume | nothing is told that neither the user nor a passage says |
| Browser endpoints, journey and job listing | none | reads | none | not modelled |
| Providers (`llm/`) | none | one call | timeouts, malformed output | callers treat every outcome |
| Other web pages (`frontend/`) | per page | load, edit, save | session change during a request | not modelled |
| Evaluation, seeding, deployment | files | offline reports | none | not modelled |

How the parts meet: collection writes postings (Job store) which extraction,
matching and email applications read; answer preparation reads the posting and the
profile; the extension and the web pages call answer preparation and then fill or
record an application. The shared state is the database, so each module takes
changes made by another part as an environment action: `Rewrite`, `EditJob`, `Recrawl`
and `CollectPosting` for a posting collected again, `ChangeChannel` for a posting closed
or a policy changed, `EditProfile` and `ChangeContact` for the candidate's own edits.
`FormPage` instantiates the operators of `ApplicationRecords` for what the server
accepts and shows, so page and server are checked against each other.

The hazards at their lines, with the property that watches each, are in
`PROJECT.json`.

## Modules and their code

A step is one database statement or one commit unless a module's header says why
several are one step. PostgreSQL runs at READ COMMITTED. `*MC.tla` holds what only
model checking needs; `*Proofs.tla` holds theorems.

**SourceCollection** (`locks.py`, `service.py`, `scheduler.py`, `schedule.py`) has one
*attempt* per call of `run_source`. Its variables are the committed lease and source rows, the
holders of the two row locks, the status of each run, and per attempt the program
counter, what it read and when. `ReadLease`/`ClaimLease` are the two statements of
`SourceLease.claim`; `CheckSource` and `StartRun` are the
start of the run in `run_source`; `LockSource` is the refresh with a row lock before
an outcome is written; `Fence` is the lease check before a publication; `Conclude` records an
outcome; `Heartbeat` is the thread; `Crash` and `Interrupt` are the death of the
process and an exception that escapes. **CrawlLedger** is what it promises: a run
begins once, only the run that began last is concluded by its worker, conclusions
are final.

**EmailDispatch** (`router.py`, `transport.py`) has one row and concurrent requests
of every kind. `Load` and `Gather` are the reads; `Replace`, `Issue`, `Claim` and
`Record` are the conditional UPDATEs; `Deliver` is the SMTP dialogue with its three
verdicts, in which the server may hold a message the client does not know was
accepted. **OneDispatch** is the promise: one dispatch of one message, fixed when it
begins, with a status that neither denies nor invents it.

**ExtractionRuns** (`persistence.py`, `service.py`, `runtime.py`,
`extract_saved_jobs.py`) has one posting. `Insert` waits on the unique active key as
PostgreSQL does, `Refresh` loads the posting again under the key, `Reuse` returns a cached result,
`CallEnds` is a call with its repair loop, `Conclude` the conditional UPDATE,
`Recover` the administrator's recovery, `Tick` the clock.

**AnswerPreparation** (`service.py`, `router.py`, `models.py`) has a context per
page, job description and profile. `LockOwner`, `Join`, `TakeOver`, `Satisfied` and `Claim` are
the first transaction, `Return`/`Fail` the unlocked call, `Refresh`/`Finish` the
write back, `LockShared`/`FinishShared` the merge into the profile's shared
mappings, `Check` the comparison with the present context. **AnswerLedger** is the
promise: each question is asked at most once and what is settled stays settled.

**ApplicationRecords** (`applications/service.py`, `schemas.py`,
`assistant/service.py`) has the record of one user for one posting and workers that
serve requests. `CheckManual`/`InsertManual` and `ReadStatus`/`WriteStatus` are the
two halves of a read, check, write without a lock; `CreateAssistant` is one commit
because the form it reads is never edited. `FinalValue` (the check on creation)
and `SavedAnswers` (the reader) are kept as the two pieces of code they are.

**ResumeFacts** (`autofill_facts.py`, `resume_files.py`) has the entries of one user
and executions of `extract_resume_autofill`. `Lookup` reads under the owner's row
lock, `Claim` reserves, `ExtractionCallEnds` reads the columns back, `Store` writes
them whole; `ReadDetails`/`WriteDetails` is the user's PATCH beside it. The ghost
`stale` names the writers whose copy is no longer what the columns say.

**RecommendationRuns** (`ai_recommendations/service.py`) has one row per comparison,
which is cache and lease at once: `Request` and `Insert` are the look and the insert
that the unique constraint may refuse, `Finish` the conditional UPDATE, `ReadRun` the
expiry by whoever reads. `Assessment` is the loop over saved runs behind a job's
page. **AssessmentReview** (`citations.py`, `service.py`, `evidence_rules.py`,
`claim_scope.py`) is the order of the rules that may lower or discard what the model
claimed of one requirement; **ApplicationAdvice** (`advice.py`, `career.py`) the
status, verdict and order drawn from the results. **JobMatching** is the comparison by
rules: its reports only read, so they are operators of the state.

**FormQuestions** is what a label says before anything may answer it: which questions
are the user's own, which facts a control can take. **FormPlan** (`autofill_assistant.py`)
has the requests for a mapping, which share one event loop: `AskPlan` is all that happens
before the call, `PlanAnswered` and `PlanCancelled` all after it, `Restart` the loss of
what the process kept. **AutofillValues** (`autofill_facts.py`) is `grounded_facts` and
`build_autofill_profile`: `ReadResume` accepts an output whole or not at all,
`ShowValues` lays the typed values and the profile's columns over it and draws the two
conclusions. **QuestionAnswers** and **CommonDrafts** (`answer_preparation/service.py`)
are what `AnswerPreparation` leaves open: when a plan is valid, what each of its answers
and drafts becomes (`Judgement`, `Selected`), and what the request is told (`Report`,
`TellDrafts`). They are short of steps; what can go wrong is in the order of the rules
and in which of them refuses one answer and which the plan.

**JobStore** (`internsg_adapter.py`, `public_ats_adapter.py`, `db_repository.py`,
`service.py`) reads a board that changes under it, a step per request (`ReadPage`,
`ReadDetail`, `ReadBoard`, `Refused`), and publishes record by record in a transaction
(`TakeRecord`, `Commit`). `WaitForOther` is PostgreSQL's wait of an insert for another
transaction's equal key. `SourceCollection` shows that a source has one collection at
a time; `JobStore` starts from there and adds two sources of one board that run at once.

**PopupFill** takes the code between two awaits as a step: `StartLoad` to `Show`, the
preparation of each preview (`JobStep`), `StartFill` with its waits, and the injected
script that awaits between writes (`FillNext`). **PageBridge** is the platform page's
way to fill: `Approve`, two messages, the five awaits of `authorize`, scripts that may
run late (`RunScript`), a worker that is killed (`WorkerKilled`). **ExtensionLink** has
the extension's lock (`inbox`, `handler`), the platform's tabs and the backend's
transactions as separate steps of `calls`, each with its check and its write.
**FormPage** is the draft, the user's confirmations and the save, which may arrive after
it timed out. **OneFill** is what the popup and the platform's page both promise of a
fill that was approved: its answers are sent once, each is written at most once, and
one verdict is told of it. "Not sent" and "done" end the fill with nothing left on its
way; "perhaps" leaves open what a late script still does.

`ProfileMC` and `ExtensionMC` compose these parts: a variable `part` says whose
behaviour it is, and the others rest. Each part takes what the others change as steps
that may come at any time, so one run checks each against every change.

Database timeouts, wording and wire formats are left out. Hashes are
collision-free. Validation whose detail decides nothing here (sizes, URL
schemes) is one nondeterministic choice, valid or not.

## Model checking

`tlc -config <cfg> <module>`; nothing else is needed.

| Run | Instance | Shows |
|---|---|---|
| `collection` | 2 attempts, lease of 1, period of 2, clock to 2; both may crash or be interrupted | source status is that of the newest run, next slot matches the policy, no cycle of row locks, a lease is taken only when expired, scheduled runs start when due, the ledger is implemented, attempts end |
| `collection_orphan` | as above | violation, see below |
| `email` | 4 requests, 2 texts, 1 attachment, 1 channel, 2 contacts; any may die | delivered as shown, claimed under the current policy, frozen once claimed, one dispatch, a dispatch concludes or its worker died |
| `email_contact` | requests interchangeable | violation, see below |
| `extraction` | 2 requests, 2 inputs and an invalid one, 2 pipelines, 1 repair, clock to 3; both may die | no duplicate extraction, result of the recorded input, lease outlives the attempts, history final, a run with a live worker concludes |
| `answers` | 2 requests, 2 questions and the general drafts, 1 context | one call at a time, asked once, ledger implemented, requests and their claims end |
| `answers_profiles` | 2 job descriptions, 2 profiles, 2 questions, at most two asked | mappings are shared only with the profile they were verified for, and never lost |
| `answers_warm` | a job description replaced during a warm-up | violation, see below |
| `applications` | 3 workers, 2 fields of which 1 required, every draft, edit and confirmation | sent records are dated, saved answers complete, a record is never replaced |
| `applications_terminal` | 2 workers | violation, see below |
| `profile` | 592,326 states; part by part: 2 entries of the same bytes with 2 extractions; 2 comparisons of 1 or 2 jobs of which one is rewritten, clock to 2; all small answers and batches; 2 jobs matched while runs and profile change; 3 postings on an InternSG board and 2 on a board that two sources name, 2 collections of each; 2 requests for plans of 3 forms of 2 people, room for one plan; small texts, outputs, plans and drafts for the values and answers | see below |
| `extension` | 836,888 states; part by part: 2 previews of a form with 2 questions, on a hosted and an InternSG form; 2 logins, requests and grants; 2 clicks on a form with 2 blanks; 2 accounts, 2 switches and 2 saves on the form page | see below |

The last two runs check several parts at once, so their properties are conjunctions:

| Property | Parts |
|---|---|
| `PaidForOnce` | `OneCallPerContent`: the same bytes go to the model once; `PaidOnce`, `LeaseOutlivesCall`: so does the same comparison, within its lease; `OneCallPerPlan`: one call for one form and profile at a time |
| `ConclusionsAreEarned` | `AssessmentsAgree`: a job's page finds the success behind newer failures; `SupportIsGrounded`, `ConditionsAreGrounded`, `GapIsContradiction`: what is stored of the model's claims is grounded; `PriorityIsEarned`, `EvidenceNeverHurts`, `OrderRespectsAdvice`: advice, order; `EvidenceIsExplicit`, `ProposedIsCurrent`, `GapsComeLast`: matches; `KeysAreUnique`, `RowsAreOwn`, `RefusalEndsRequests`: stored postings; `ResumeValuesAreGrounded`, `UserDecides`, `ConclusionsAreShown`, `AllOrNothing`: values; `PlansAreOwn`: mappings; `DraftsAreSupported`, `AnswersFit`, `MissingIsMissing`, `UserComesFirst`, `AskedIsSettled`: answers; `DraftsAreTheApplicants`, `DraftsKeepTheBudget`, `RequiredIsPossible`, `RequiredIsPresented`: drafts |
| `NothingIsUndone` | `FinishedRunsStay`; `EditsLostOnlyToRaces`; `EvidenceHelps`: more evidence loses no job its place; `ResolvedIsKept`: a paid answer is not discarded late; `OnlyGoneIsClosed`, `CompleteIsExact`: closing of postings |
| `ProfileSettles` | runs, reservations and collections end, or their process has died |
| `FillsAreSafe` | `AnswersOfThisPreview`, `SentAsShown`, `OneAttemptPerQuestion`, `ToldTruly` of the popup; `NotSentIsTrue`, `ReportIsTrue` of the bridge; `SavedIsShown`, `RecordIsReviewed`, `SureOfFactsOnly` of the form page |
| `AccessIsBounded` | `LoggedOutIsCutOff`, `NoGrantLeftBehind`, `PendingMeansDisconnected` |
| `StepsAreRespectful` | `WebsiteKept`, `EditsKept`: what the user wrote stays; `NothingAfterWaiting`, `FormIsRespected`: the bridge's writes; `ExchangesAreTimely`: codes; `RecordStays` |
| `FillsOnce` | popup and page bridge implement `OneFill`, each by a mapping of its own |
| `ExtensionSettles` | popup and page do not stay busy, the preparation that a fill waits for ends |

**Why the bounds are enough.** Two attempts or requests give every takeover: a stale
actor and its successor. Four email requests let two previews and two sends overlap
with an edit in place of any of them. The clock reaches past a lease and a slot
(collection) and past a call with its repair (extraction). Two questions let one be
settled while another is asked. In `applications` three overlapping workers include
two status changes against a creation. In `profile`, two extractions of two copies
give a cache hit, a reservation met and an entry deleted under a call; three postings
on pages of two give a second page that shifts while the first is read; two sources
collide on one key; two requests of one key meet at a call, and with a third form a
cache of one plan gives one up. In `extension`, two previews, logins or clicks are a current one and
the one it replaced. The proofs cover every number.

Every clock and counter has a named bound: `MaxTime`, `Retries`, `TwoAsked` (a state
constraint), a two-or-more cap on `asked`, `MaxEdits`, `MaxCrawls`, `MaxPreviews`,
`MaxTurns`, `MaxLogins`, `MaxGrants`, `MaxRequests`, `MaxEvents`, `MaxClicks`, `MaxChanges`,
`MaxSwitches`, `MaxSaves`, `LastHour`. `Capacity` and `Lifetime` are the code's own. In `ProfileMC`, a comparison names the second job only
beside the first (`SecondBesideFirst`), and `InOrder` and `LastIdFirst` fix the order in which
interchangeable actors begin (`LastIdFirst` the harder one: the newer run has
the smaller id), `SmallBoard` and `OneBoard` say which postings a board has at first. `MayCrash` and `MayInterrupt` say which
actors may die. The liveness runs use no symmetry and no constraint.

`CHECK_DEADLOCK FALSE` appears where all requests of the instance can be finished:
the system then rests.

**Fairness.** Weak fairness of each attempt's or request's own steps: a thread of
a live process is scheduled, database statements return, provider calls have a
timeout (`asyncio.wait_for`, the SMTP socket timeout), so a call ends. Starting a
request, changes by users, crashes and the passing of time are never fair, with one exception:
`Age`, the twentieth second of a claim, is. `LockOwner` and
`LockShared` are strongly fair: PostgreSQL queues waiters of a row lock, so a
transaction does not wait for ever while others come and go.
`ResumeFairness`, `RecommendationFairness` and `StoreFairness` are of the same kind:
the process that made a request carries it on. `StoreFairness` is one fairness for all
collections, which PostgreSQL's deadlock detector justifies: some waiting transaction
ends. `PopupFairness` and `BridgeFairness`: what a page or worker awaits ends in a result, an
error or a timer of its own (`PreparationEnds` rests on the job's timeout, the page's
20 seconds on `StopWaiting`). No fairness is asked of users, sites or boards.

## Disagreements found

- `collection_orphan`: `SourceLease.claim` reads the previous run before its
  conditional UPDATE. If the old owner's start commits in between and its lease runs
  out, its run is never written off, although `service.py:376` relies on it.
- `email_contact`: the claim's WHERE clause does not cover the reply address, so one saved
  between the snapshot and the claim does not invalidate the token; the pilot's
  document says it does.
- `answers_warm`: the warm-up route compares against the posting its session still
  holds, so drafts of a replaced job description are reported as current;
  `service.py:1166` says never.
- `applications_terminal`: a status change writes by primary key whatever the row
  has become, so a withdrawn application can become submitted; the document calls
  withdrawn terminal.

The traces are in the runs; the quoted lines in `PROJECT.json`.

## Proofs

All theorems hold for any value of the constants, so for any number of workers and any
clock bound. The modules are checked by `tlapm`.

| Module | Results |
|---|---|
| SourceCollectionProofs | types, `NoLockCycle`, `SourceStatusMatchesRun`, `NextRunMatchesPolicy`, `LeaseTakenOnlyWhenExpired`, `ScheduledRunsStartWhenDue`, refinement of `CrawlLedger` |
| EmailDispatchProofs | types, `DeliveredAsShown`, `ClaimedUnderCurrentPolicy`, `FrozenOnceClaimed`, refinement of `OneDispatch` |
| ExtractionRunsProofs | types, `NoDuplicateExtraction`, `ResultOfRecordedInput`, `LeaseOutlivesAttempts`, `HistoryIsFinal` |
| AnswerPreparationProofs | types, `SharedGrows`; assuming `Timely`: `OneCall`, `AskedOnce`, `SharedVerified`, refinement of `AnswerLedger` |
| ApplicationRecordsProofs | types, `Stamped`, `AnswersComplete`, `RecordKept` |
| ProfileProofs | every safety property of every part: `PaidForOnce`, `ConclusionsAreEarned` and `NothingIsUndone` of the composition, and the conjuncts of each for the part alone |
| ExtensionProofs | types and the parts of `AccessIsBounded` for the link alone and for the composition; `ExchangesAreTimely` |
| FillProofs | popup, bridge and form page, alone and in the composition: types, `FillsAreSafe`, `StepsAreRespectful` with all their conjuncts; refinement of `OneFill` by popup and bridge (`FillsOnce`) |

The inductive invariants say what an actor may still rely on at each of its steps.
None of the checked invariants is inductive alone:

- *SourceCollection*: locks are where the program counters say; who holds the lease
  row is its committed owner; an owner that crawls is the newest run, still running;
  what was read under the source lock is still so at commit. The refinement follows
  since a publication needs the lease row.
- *EmailDispatch*: a live token belongs to the stored review and its preview showed
  that; the owner of the claim works on what it claimed; the mailbox holds
  at most that message and no more than the known outcome admits.
- *ExtractionRuns*: one request holds the key; a row records the input extracted; a
  running run repeats no finished one; time since the row was built is the sum of
  time in calls and outside.
- *AnswerPreparation*: a part that holds whatever the clock does (locks, the shared
  row under the owner's lock) and a part about claims, which needs that a live
  worker writes back within the 20 seconds. That is `Timely`. The code arranges
  it with a shorter call timeout but cannot guarantee it, so it is an explicit
  hypothesis.
- *ApplicationRecords*: a worker about to write knows its transition was legal from
  what it read, a date it saw is still there, and a record that was once a draft has no
  date given by the user.

- *RecommendationRuns*: the row of a request compares what the request drafted, no two
  rows compare the same, a request without a row is not charged, and a call has run for
  no longer than its timeout.
- *ResumeFacts*: the lock is held from lookup to claim, a present file is called for and
  stored by one extraction, bytes that were paid for have an outcome at one of their
  entries unless an entry was deleted, and a copy that nobody marked stale is
  what the columns say. The last part makes the ghost `stale` exact, and with it
  `EditsLostOnlyToRaces`.
- *ExtensionLink*: grants are stored in the order of requests, each code is travelling in one place
  only (tab, message, handler or call), what a handler or call carries is of the request
  it was made for, and a signed-out login has no call that can still give it a
  grant unrevoked. `NoGrantLeftBehind` needs the places, `LoggedOutIsCutOff` the calls.
- *PopupFill*: a job that may still write is the shown preview's, and beside it runs no
  operation but the fill that awaits it; what is shown is what was approved, but for
  what the awaited job adds until the merge; a question sent is blocked as long as its
  preview is shown. `SentAsShown` needs the second, `OneAttemptPerQuestion` the third.
- *PageBridge*: for each place that the worker may have reached with the page's message, what
  the checks it has made let it rely on; until the fill is asked for, a click has sent
  nothing; of a click that was given up only late messages and scripts remain, which
  write nothing. `NothingAfterWaiting` needs the last, `ReportIsTrue` the first.
- *OneFill*: two more invariants carry the refinement. The popup has told nothing of a fill
  under way (`NothingTold`). A click's answers are on their way in one place only, with
  the message, the worker or a script, and while the page waits it has said nothing,
  unless the form changed under the click (`CarriedInv`). So a script writes what nobody
  else still has, and a verdict comes when the page has not spoken yet.
- *FormPage*: a field that is not edited shows what was suggested, a draft belongs to the
  account that it was loaded for, and each save under way or recorded reads back as it
  was on screen when it was confirmed.
- *JobStore*: a key is of its own source, or of its own posting on a board, so two
  transactions can meet on one posting only; a transaction removes no row and closes one
  only for a record that is closed; the records of a failure-free listing of a JSON
  board are its links. `OnlyGoneIsClosed` compares a commit with the board through these.
- *AssessmentReview*: a claim is only lowered, so what is still supported has passed every
  rule so far; after the resolution it rests on a condition that is displayed.
- *ApplicationAdvice*: the batch is one that a model may rank, and what is displayed is the
  order of a batch as stored. That an order exists is a lemma on finite sets (`SortFact`).
- *FormPlan*: a key is pending exactly while one request calls for it, and no plan is kept
  for a pending key; what is kept or told maps the questions of its own key only.
- *Assessment*, the loop over saved runs, and the drafts' choice of passages are recursive
  functions and choices over data: what they return is proved by induction on the number
  of turns, written out with a set of naturals (`Induct`) since the library's theorem
  takes an operator.
- *JobMatching*, *AutofillValues*, *QuestionAnswers*, *CommonDrafts* hold little state, and
  the invariant says just that it is what the inputs give; the properties are facts of
  the operators. The work is there: no order of rules lets an answer through that a rule
  refuses.
- The compositions follow since a step of the whole is, for each part, a step or a stutter.

Assumptions on constants are named in the module that declares them: distinct null
values, crash sets within the actors, times that are natural numbers, finitely many
skills, entries and requests, and the form of the inputs (`MatchContent`, `AdviceBatches`,
`DossierShapes`, `PlanForms`, `InquiryShapes`, `WarmingShapes`): what the request schemas
and the code before the modelled step guarantee. `CrawlNames` says that the composition
lets sources collect that exist.

**Model-checked only.** Liveness (`AttemptsEnd`, `DispatchConcludes`,
`RunsConclude`, `PreparationConcludes`, `ProfileSettles`, `ExtensionSettles`), which
needs fairness, and the violations. Every invariant and every action property of a
passing run is proved.

## Limits

Not modelled:

- Browser endpoints, journey history, job listing: requests that only
  read, or pass to a part that is modelled.
- Language model providers: an external service; its answer, failure or silence is a
  choice of the module that calls it. What a crawl finds and what a model answers are
  choices too, so parsers and prompts are not checked.
- The other web pages are layout around one request each; evaluation, seeding and
  deployment are offline.

Within the modelled parts:

- *Resumes*: PDF parsing, the form that a typed value must have, the other profile fields.
- *Values*: what the patterns find in a passage (dates, degrees, wording) is an input.
- *Mappings*: two questions that differ in an id alias only are one.
- *Answers*: option values may repeat, so a saved fact put into a list may have an
  ambiguous value (`AnswersFit` asks for one only of drafted answers). `_option_value` does
  not look whether a list may be searched, and `_saved` gives an option's value
  where `_choice_answer` gives its label; both are as in the code.
- *Drafts*: `_draft_tasks` adds the lengths of two passages without the space that `_draft`
  puts between them, so a motivation may be required of 701 characters and refused
  at 700: `RequiredIsPossible` excepts just that.
- *Recommendations*: the window of `History` runs is not reached in the instance and no
  instance closes a posting; the row of a dead process waits for a reader, so
  `ProfileSettles` is about live ones; a change of the prompt's version, the legacy
  format and the preferences of a request are left out.
- *Review and advice*: what a rule finds in words is an input. An optional row is
  neutral only if no part of it is supported: the code lowers `check_first` to
  `not_priority` in some such cases, which `EvidenceNeverHurts` leaves out by its conditions.
- *Job store*: counters, tags, delays and JSON snapshots. An InternSG posting with the
  title of a stored one is left out by the code; rows of a paused source are closed by
  no other source of its board.
- *Popup*: attached files, the disabled submission, the country field's replacement.
  Occupancy of a dropdown is read before its list is awaited, so an answer
  chosen in between is replaced: `WebsiteKept` excepts just that.
- *Link*: registration, passwords, `connection-status`. Signing in also ends the other
  platform tabs' sessions and may cancel a pending connection. The limit on a user's
  grants is counted before the insert without a lock; no property relies on it.
- *Form page*: if the account changes away and back before the tab hears of it, the page
  may stay in `saving` or `stopped`, so no liveness is claimed of it.
- SQLite, used by tests, serializes writers and is a special case of the steps here.

## Plan

What is left, in order of importance:

1. Interleaving two parts in one behaviour where they share rows: `JobStore` under
   `SourceCollection`'s fence, and the popup under `ExtensionLink`'s grants.
2. The batch command of job extraction and the preparation hook `usePreparedAnswers.ts`.
