-------------------------------- MODULE PopupFill --------------------------------
(***************************************************************************)
(* The extension's popup and the form it fills (extension/popup.js,        *)
(* popup-preparation.js, popup-autoload.js, popup-review.js, ats-page.js,  *)
(* page.js and widgets.js).                                                *)
(*                                                                         *)
(* The popup is single-threaded, but every await lets the user, the site,  *)
(* the account and the profile move on: a preview is loaded, a preparation *)
(* job asks the model for what is missing, and a fill copies what the      *)
(* popup shows into the page.  One operation runs at a time (busy); jobs   *)
(* run beside it.  The script injected into a hosted (ATS) form awaits     *)
(* between writes too, those for InternSG run to their end.  An action     *)
(* stands for the code between two awaits.                                 *)
(***************************************************************************)
EXTENDS Naturals, FiniteSets

CONSTANTS Questions,    \* questions of the form
          Known,        \* those the saved profile answers
          Widgets,      \* InternSG: those filled by the second script
          Dropdowns,    \* ATS: those whose list must open before a choice
          Tools,        \* supported sites: subset of {"ats", "internsg"}
          MaxPreviews,  \* bound: previews of a behaviour
          MaxTurns      \* bound: what the user, site and account do meanwhile

ASSUME PopupConstants ==
    /\ Known \union Widgets \union Dropdowns \subseteq Questions
    /\ Tools \subseteq {"ats", "internsg"}
    /\ {MaxPreviews, MaxTurns} \subseteq Nat \ {0}

VARIABLES
    tool,     \* the site of the tab
    session,  \* connection of the popup, 0 when signed out
    saved,    \* version (fingerprint) of the saved profile
    page,     \* document of the tab, its URL, values and control identities
    review,   \* atsReview or snapshot: the preview that may be filled
    editors,  \* its answers in the popup, and the preview they belong to
    job,      \* preparation job of each preview
    op,       \* operation that makes the popup busy
    told,     \* what the popup says of the last fill
    turns,    \* bound: turns taken by the surroundings
    wrote,    \* ghost: questions the last fill has written
    sent      \* ghost: how often each question of the preview was sent
popupVars == <<tool, session, saved, page, review, editors, job, op, told, turns, wrote, sent>>

Previews == 1..MaxPreviews
Texts == {"empty", "saved", "user", "ai", "unfinished"}
Editor(text, from) == [text |-> text, edited |-> FALSE, blocked |-> FALSE, from |-> from]
NoEditors == [of |-> 0, at |-> [q \in Questions |-> Editor("empty", 0)]]
NeverSent == [q \in Questions |-> 0]
NoReview == [id |-> 0, by |-> 0, saved |-> 0, document |-> 0, key |-> [q \in Questions |-> 0]]
NoJob == [status |-> "none", stage |-> "over", cancelled |-> FALSE, awaited |-> FALSE,
          by |-> 0, saved |-> 0, document |-> 0, fields |-> {}, answers |-> {}]
NoOp == [kind |-> "none", stage |-> "none", by |-> 0, review |-> NoReview, pending |-> FALSE,
         approved |-> [q \in {} |-> "empty"], left |-> {}, opened |-> {}, filled |-> {},
         result |-> "none"]
NewPage(d) == [document |-> d, url |-> "form",
               value |-> [q \in Questions |-> "empty"], key |-> [q \in Questions |-> 0]]

PopupInit ==
    /\ tool \in Tools
    /\ session = 1 /\ saved = 0 /\ page = NewPage(1)
    /\ review = NoReview /\ editors = NoEditors
    /\ job = [r \in Previews |-> NoJob]
    /\ op = NoOp /\ told = "idle" /\ turns = 0 /\ wrote = {} /\ sent = NeverSent

\* cancelPreparation: the job runs on; one that has settled is of no more use.
JobsCancelled ==
    [r \in Previews |-> CASE job[r].status = "none" -> NoJob
                          [] job[r].status = "preparing" -> [job[r] EXCEPT !.cancelled = TRUE]
                          [] OTHER -> [NoJob EXCEPT !.status = "settled"]]

\* clearDraft and clearAtsReview: the preview, its answers and its job.
Cleared ==
    /\ review' = NoReview /\ editors' = NoEditors
    /\ job' = JobsCancelled /\ told' = "idle"

Busy == op.kind # "none"
OpEnds == op' = NoOp
SameSession == op.by = session

\* assertPopupDocumentBinding: the tab still shows the document and its URL.
Bound(r) == page.document = r.document /\ page.url = "form"
-------------------------------------------------------------------------------
(* Around the popup *)

\* Bound: so much happens around the popup.
TakesTurn == turns < MaxTurns /\ turns' = turns + 1

\* The user or the site answers a question in the page.
AnswerOnWebsite(q) ==
    /\ TakesTurn
    /\ page.value[q] # "own"
    /\ page' = [page EXCEPT !.value[q] = "own"]
    /\ UNCHANGED <<tool, session, saved, review, editors, job, op, told, wrote, sent>>

\* The site renders a control anew: same place, another identity.
RenderAnew(q) ==
    /\ TakesTurn
    /\ page.key[q] = 0
    /\ page' = [page EXCEPT !.key[q] = 1]
    /\ UNCHANGED <<tool, session, saved, review, editors, job, op, told, wrote, sent>>

\* Navigation within the document, or to the form in another one.
Leave ==
    /\ TakesTurn
    /\ page.url = "form"
    /\ page' = [page EXCEPT !.url = "other"]
    /\ UNCHANGED <<tool, session, saved, review, editors, job, op, told, wrote, sent>>
Reload ==
    /\ TakesTurn
    /\ page' = NewPage(page.document + 1)
    /\ UNCHANGED <<tool, session, saved, review, editors, job, op, told, wrote, sent>>

\* The profile is edited on the platform.
SaveProfile ==
    /\ TakesTurn
    /\ saved' = saved + 1
    /\ UNCHANGED <<tool, session, page, review, editors, job, op, told, wrote, sent>>

\* restoreConnection: another grant arrives in the extension's storage.
Reconnect ==
    /\ TakesTurn
    /\ session' = session + 1
    /\ Cleared
    /\ UNCHANGED <<tool, saved, page, op, wrote, sent>>

\* permissionsChanged
ChangePermissions ==
    /\ TakesTurn
    /\ review # NoReview
    /\ Cleared
    /\ UNCHANGED <<tool, session, saved, page, op, wrote, sent>>

\* input listener of an editor, which is disabled while the popup is busy.
Edit(q) ==
    /\ TakesTurn
    /\ ~Busy /\ review # NoReview /\ ~editors.at[q].blocked
    /\ \E text \in {"user", "empty"} \ {editors.at[q].text} :
           editors' = [editors EXCEPT !.at[q].text = text, !.at[q].edited = TRUE,
                                      !.at[q].from = 0]
    /\ UNCHANGED <<tool, session, saved, page, review, job, op, told, wrote, sent>>

\* Another operation of the popup: attach, save, import.
StartOther ==
    /\ TakesTurn
    /\ ~Busy /\ review # NoReview
    /\ op' = [NoOp EXCEPT !.kind = "other", !.by = session]
    /\ UNCHANGED <<tool, session, saved, page, review, editors, job, told, wrote, sent>>
EndOther ==
    /\ op.kind = "other"
    /\ OpEnds
    /\ UNCHANGED <<tool, session, saved, page, review, editors, job, told, turns, wrote, sent>>
-------------------------------------------------------------------------------
(* Loading a preview: loadATSPreview, loadInternSGPreview *)

NextPreview == Cardinality({r \in Previews : job[r].status # "none"}) + 1

StartLoad ==
    /\ ~Busy /\ session # 0 /\ NextPreview \in Previews
    /\ Cleared
    /\ op' = [NoOp EXCEPT !.kind = "load", !.stage = "inspect", !.by = session]
    /\ wrote' = {} /\ sent' = NeverSent
    /\ UNCHANGED <<tool, turns, session, saved, page>>

\* The page is read: its document and the identity of its controls.
Inspect ==
    /\ op.kind = "load" /\ op.stage = "inspect" /\ SameSession /\ page.url = "form"
    /\ op' = [op EXCEPT !.stage = "profile",
                  !.review = [id |-> NextPreview, by |-> session, saved |-> saved,
                              document |-> page.document, key |-> page.key],
                  !.left = {q \in Questions : page.value[q] = "empty"}]
    /\ UNCHANGED <<tool, turns, session, saved, page, review, editors, job, told, wrote, sent>>

LoadProfile ==
    /\ op.kind = "load" /\ op.stage = "profile" /\ SameSession
    /\ op' = [op EXCEPT !.stage = "bind", !.review.saved = saved]
    /\ UNCHANGED <<tool, turns, session, saved, page, review, editors, job, told, wrote, sent>>

\* The preview is shown, and startPreparation asks for the empty answers.
Show ==
    LET r == op.review
        empty == op.left \ Known
    IN  /\ op.kind = "load" /\ op.stage = "bind" /\ SameSession /\ Bound(r)
        /\ review' = r
        /\ editors' = [of |-> r.id, at |-> [q \in Questions |->
               [Editor(IF q \in Known \intersect op.left THEN "saved" ELSE "empty", 0)
                    EXCEPT !.blocked = q \notin op.left]]]
        /\ job' = [job EXCEPT ![r.id] = [NoJob EXCEPT
               !.status = IF empty = {} THEN "settled" ELSE "preparing",
               !.stage = IF empty = {} THEN "over" ELSE "request",
               !.by = r.by, !.saved = r.saved, !.document = r.document, !.fields = empty]]
        /\ OpEnds
        /\ UNCHANGED <<tool, turns, session, saved, page, told, wrote, sent>>
-------------------------------------------------------------------------------
(* A preparation job: startPreparation *)

\* Mutant: an unsettled job is valid, whatever the popup shows.
ValidWhileOpen(r) == job[r].status = "preparing"

\* valid: not cancelled, unsettled, of this connection and of the shown preview.
Valid(r) ==
    /\ ~job[r].cancelled /\ job[r].status = "preparing"
    /\ job[r].by = session /\ review.id = r

\* A patch goes to an answer that is empty, open and that the user left alone.
Patchable(q) ==
    LET e == editors.at[q] IN ~e.blocked /\ ~e.edited /\ e.text = "empty"
Patched(r, qs, text) ==
    [editors EXCEPT !.at = [q \in Questions |->
        IF q \in qs /\ Patchable(q) THEN Editor(text, r) ELSE editors.at[q]]]

\* Mutant: a job that is over is still shown as preparing.
StillPreparing(r) == [job EXCEPT ![r].stage = "over"]

Settled(r) == [job EXCEPT ![r] = [NoJob EXCEPT !.status = "settled", !.fields = job[r].fields]]

\* The backend answers some of the questions; then the profile is read again.
JobAnswered(r, qs) ==
    /\ job[r].stage = "request" /\ qs \subseteq job[r].fields
    /\ job' = IF Valid(r) THEN [job EXCEPT ![r].answers = qs, ![r].stage = "reload"]
              ELSE Settled(r)
    /\ UNCHANGED <<tool, turns, session, saved, page, review, editors, op, told, wrote, sent>>

\* A changed profile makes the preview stale and writes nothing.
Reread(r) ==
    /\ job[r].stage = "reload"
    /\ job' = IF Valid(r) /\ (job[r].answers = {} \/ saved = job[r].saved)
              THEN [job EXCEPT ![r].stage = "bind"] ELSE Settled(r)
    /\ UNCHANGED <<tool, turns, session, saved, page, review, editors, op, told, wrote, sent>>

\* Answers are added unless another action than this fill has started.
MayAdd(r) == ~Busy \/ job[r].awaited

\* The answers are applied, and pending text where there is none.
Apply(r) ==
    /\ job[r].stage = "bind"
    /\ job' = Settled(r)
    /\ editors' = IF Valid(r) /\ Bound(job[r]) /\ MayAdd(r)
                  THEN [editors EXCEPT !.at = [q \in Questions |->
                           IF q \in job[r].answers THEN Patched(r, {q}, "ai").at[q]
                           ELSE Patched(r, job[r].fields, "unfinished").at[q]]]
                  ELSE editors
    /\ UNCHANGED <<tool, turns, session, saved, page, review, op, told, wrote, sent>>

\* The deadline, or an error: pending text.  What still runs is not valid any more.
TimeOut(r) ==
    /\ job[r].status = "preparing"
    /\ job' = Settled(r)
    /\ editors' = IF Valid(r) THEN Patched(r, job[r].fields, "unfinished") ELSE editors
    /\ UNCHANGED <<tool, turns, session, saved, page, review, op, told, wrote, sent>>
-------------------------------------------------------------------------------
(* A fill *)

\* Answers that may be sent now: approvedAutofillAnswers, project.
Sendable ==
    {q \in Questions : ~editors.at[q].blocked /\ editors.at[q].text # "empty"}
Current == [q \in Sendable |-> editors.at[q].text]

StartFill ==
    /\ ~Busy /\ review # NoReview
    /\ Sendable # {} \/ Valid(review.id)
    /\ op' = [NoOp EXCEPT !.kind = "fill", !.stage = "wait", !.by = session, !.review = review,
                          !.pending = Valid(review.id), !.approved = Current]
    /\ job' = IF Valid(review.id) THEN [job EXCEPT ![review.id].awaited = TRUE] ELSE job
    /\ told' = "waiting" /\ wrote' = {}
    /\ UNCHANGED <<tool, turns, session, saved, page, review, editors, sent>>

\* mergePreparedApproval: what was shown at the click, and what the job has
\* since put where the user wrote nothing.
Merged ==
    LET late == {q \in Sendable : op.pending /\ q \in job[op.review.id].fields
                                  /\ ~editors.at[q].edited}
    IN  [q \in DOMAIN op.approved \union late |->
            IF q \in late THEN editors.at[q].text ELSE op.approved[q]]

\* The job has settled; it is done with in any case.
Merge ==
    /\ op.kind = "fill" /\ op.stage = "wait" /\ SameSession
    /\ op.pending => job[op.review.id].status = "settled"
    /\ review = op.review /\ DOMAIN Merged # {}
    /\ op' = [op EXCEPT !.approved = Merged, !.stage = "profile"]
    /\ job' = JobsCancelled
    /\ UNCHANGED <<tool, turns, session, saved, page, review, editors, told, wrote, sent>>

\* The profile is read again; a changed one ends the preview.
CheckProfile ==
    /\ op.kind = "fill" /\ op.stage = "profile" /\ SameSession /\ review = op.review
    /\ IF saved = review.saved
       THEN /\ op' = [op EXCEPT !.stage = "bind"]
            /\ UNCHANGED <<review, editors, job, told>>
       ELSE Cleared /\ OpEnds
    /\ UNCHANGED <<tool, turns, session, saved, page, wrote, sent>>

\* An ATS preview is consumed; InternSG's is kept, its sent answers blocked.
Consume ==
    IF tool = "ats" THEN review' = NoReview /\ UNCHANGED editors
    ELSE /\ editors' = [editors EXCEPT !.at = [q \in Questions |->
                [editors.at[q] EXCEPT !.blocked = @ \/ q \in DOMAIN op.approved]]]
         /\ UNCHANGED review

\* The script is injected into the very document of the preview; InternSG's
\* plain fields go first, then its widgets after another check.
FirstScript == IF tool = "ats" THEN DOMAIN op.approved ELSE DOMAIN op.approved \ Widgets
Dispatch ==
    /\ op.kind = "fill" /\ op.stage = "bind" /\ SameSession
    /\ review = op.review /\ Bound(op.review)
    /\ op' = [op EXCEPT !.stage = "page", !.left = FirstScript]
    /\ Consume
    /\ told' = "filling"
    /\ sent' = [q \in Questions |-> IF q \in DOMAIN op.approved THEN sent[q] + 1 ELSE sent[q]]
    /\ UNCHANGED <<tool, turns, session, saved, page, job, wrote>>
DispatchWidgets ==
    /\ op.kind = "fill" /\ op.stage = "between" /\ SameSession
    /\ review = op.review /\ Bound(op.review)
    /\ op' = [op EXCEPT !.stage = "page", !.left = DOMAIN op.approved \intersect Widgets]
    /\ UNCHANGED <<tool, turns, session, saved, page, review, editors, job, told, wrote, sent>>
-------------------------------------------------------------------------------
(* In the page *)

Injected == op.kind = "fill" /\ page.document = op.review.document
Same(q) == page.key[q] = op.review.key[q]

Write(qs) ==
    /\ page' = [page EXCEPT !.value = [q \in Questions |->
                   IF q \in qs THEN op.approved[q] ELSE page.value[q]]]
    /\ wrote' = wrote \union qs

\* interactWithPage, interactWithWidgets: one turn for all their questions.
FillInTurn ==
    LET free == {q \in op.left : page.value[q] = "empty" /\ Same(q)}
    IN  /\ tool = "internsg" /\ Injected /\ op.stage = "page" /\ page.url = "form"
        /\ Write(free)
        /\ op' = [op EXCEPT !.stage = "report", !.left = {}, !.filled = @ \union free,
                            !.result = IF op.left \intersect Widgets = {}
                                          /\ DOMAIN op.approved \intersect Widgets # {}
                                       THEN "first" ELSE "report"]
        /\ UNCHANGED <<tool, turns, session, saved, review, editors, job, told, sent>>

\* Every answer must still find its reviewed control.
Preflight == page.url = "form" /\ \A q \in DOMAIN op.approved : Same(q)

\* interactWithATSPage: one mismatch refuses the whole fill.
Validate ==
    /\ tool = "ats" /\ Injected /\ op.stage = "page"
    /\ op' = IF Preflight THEN [op EXCEPT !.stage = "writing"]
             ELSE [op EXCEPT !.stage = "report", !.result = "rejected"]
    /\ UNCHANGED <<tool, turns, session, saved, page, review, editors, job, told, wrote, sent>>

Free(q) == Same(q) /\ page.value[q] = "empty"

\* One question in turn: a changed or answered control is skipped; the list of a
\* dropdown is opened first.
FillNext(q) ==
    /\ tool = "ats" /\ Injected /\ op.stage = "writing" /\ q \in op.left /\ op.opened = {}
    /\ IF page.url = "form" /\ Free(q)
       THEN IF q \in Dropdowns
            THEN op' = [op EXCEPT !.opened = {q}] /\ UNCHANGED <<page, wrote>>
            ELSE Write({q}) /\ op' = [op EXCEPT !.left = @ \ {q}, !.filled = @ \union {q}]
       ELSE op' = [op EXCEPT !.left = @ \ {q}] /\ UNCHANGED <<page, wrote>>
    /\ UNCHANGED <<tool, turns, session, saved, review, editors, job, told, sent>>

\* The choice is clicked once the list is there: only the control is checked again.
Choose(q) ==
    /\ tool = "ats" /\ Injected /\ op.stage = "writing" /\ q \in op.opened
    /\ op' = [op EXCEPT !.opened = {}, !.left = @ \ {q},
                        !.filled = IF page.url = "form" /\ Same(q) THEN @ \union {q} ELSE @]
    /\ IF page.url = "form" /\ Same(q) THEN Write({q}) ELSE UNCHANGED <<page, wrote>>
    /\ UNCHANGED <<tool, turns, session, saved, review, editors, job, told, sent>>

\* What did not stay in its control is reported as skipped.
ReportFill ==
    /\ tool = "ats" /\ Injected /\ op.stage = "writing" /\ op.left = {}
    /\ op' = [op EXCEPT !.stage = "report", !.result = "report",
                        !.filled = {q \in @ : page.value[q] = op.approved[q]}]
    /\ UNCHANGED <<tool, turns, session, saved, page, review, editors, job, told, wrote, sent>>

\* The document is gone, and the script with it; or it is not the form any more.
Lose ==
    /\ op.kind = "fill" /\ op.stage \in {"page", "writing"}
    /\ ~Injected \/ (tool = "internsg" /\ page.url # "form")
    /\ op' = [op EXCEPT !.stage = "report", !.result = "lost"]
    /\ UNCHANGED <<tool, turns, session, saved, page, review, editors, job, told, wrote, sent>>
-------------------------------------------------------------------------------
(* The report *)

\* checkedFillResult, parseATSFillResult: only a refused preflight is "rejected".
Outcome == IF op.result = "report" THEN "complete"
           ELSE IF op.result = "rejected" THEN "rejected" ELSE "uncertain"

\* The popup reads the report of the script, if the connection is the same.
ReadReport ==
    /\ op.kind = "fill" /\ op.stage = "report"
    /\ IF SameSession /\ op.result = "first" /\ review = op.review
       THEN op' = [op EXCEPT !.stage = "between"] /\ UNCHANGED <<told, editors>>
       ELSE /\ OpEnds
            /\ told' = IF SameSession THEN Outcome ELSE told
            /\ editors' = IF SameSession /\ op.result = "report" /\ editors.of = op.review.id
                          THEN [editors EXCEPT !.at = [q \in Questions |->
                                    IF q \in op.filled
                                    THEN [Editor("empty", 0) EXCEPT !.blocked = TRUE]
                                    ELSE editors.at[q]]]
                          ELSE editors
    /\ UNCHANGED <<tool, turns, session, saved, page, review, job, wrote, sent>>

\* Any await before the script may end the operation: an error, a tab that shows
\* something else, an account that changed.  Between two scripts it is uncertain.
Fail ==
    /\ \/ op.kind = "load"
       \/ op.kind = "fill" /\ op.stage \in {"profile", "bind", "between"}
       \/ op.kind = "fill" /\ op.stage = "wait"
            /\ (op.pending /\ SameSession => job[op.review.id].status = "settled")
    /\ OpEnds
    /\ told' = IF op.kind = "fill" /\ SameSession
               THEN IF op.stage = "between" THEN "uncertain" ELSE "not sent" ELSE told
    /\ job' = IF op.kind = "fill" /\ op.stage = "wait" /\ SameSession THEN JobsCancelled ELSE job
    /\ UNCHANGED <<tool, turns, session, saved, page, review, editors, wrote, sent>>
-------------------------------------------------------------------------------
JobStep(r) ==
    \/ \E qs \in SUBSET job[r].fields : JobAnswered(r, qs)
    \/ Reread(r)
    \/ Apply(r)
    \/ TimeOut(r)

FillStep ==
    \/ Merge \/ CheckProfile \/ Dispatch \/ DispatchWidgets
    \/ FillInTurn \/ Validate \/ ReportFill \/ Lose \/ ReadReport \/ Fail
    \/ \E q \in Questions : FillNext(q) \/ Choose(q)

LoadStep == Inspect \/ LoadProfile \/ Show

\* What the operation under way does next.
OperationStep == LoadStep \/ FillStep \/ EndOther

PopupNext ==
    \/ \E q \in Questions : AnswerOnWebsite(q) \/ RenderAnew(q) \/ Edit(q)
    \/ Leave \/ Reload \/ SaveProfile \/ Reconnect \/ ChangePermissions
    \/ StartOther \/ StartLoad \/ StartFill \/ OperationStep
    \/ \E r \in Previews : JobStep(r)

\* Timers fire, and what the popup awaits ends in a result or an error.
PopupFairness ==
    /\ \A r \in Previews : WF_popupVars(JobStep(r))
    /\ WF_popupVars(OperationStep)

PopupSpec == PopupInit /\ [][PopupNext]_popupVars /\ PopupFairness
-------------------------------------------------------------------------------
(* The fill as OneFill has it *)

FillStage ==
    IF op.kind # "fill" THEN "over"
    ELSE IF op.stage \in {"wait", "profile", "bind"} THEN "approved" ELSE "sent"

\* What this script and the next have to write.
FillDue ==
    IF op.kind # "fill" \/ op.stage \in {"wait", "profile", "bind"} THEN {}
    ELSE op.left \union
         (IF tool = "ats" \/ (op.stage = "report" /\ op.result # "first") THEN {}
          ELSE DOMAIN op.approved \intersect Widgets)

FillSays ==
    IF told = "complete" THEN "done"
    ELSE IF told \in {"rejected", "not sent"} THEN "not sent"
    ELSE IF told = "uncertain" THEN "perhaps" ELSE "nothing"

PopupPromise == INSTANCE OneFill WITH Answers <- Questions, stage <- FillStage, due <- FillDue,
                                      says <- FillSays
-------------------------------------------------------------------------------
(* Properties *)

\* Every variable has its type; a preview and its answers are of the connection.
PopupTypes ==
    /\ session \in 1..MaxTurns + 1 /\ saved \in 0..MaxTurns /\ turns \in 0..MaxTurns
    /\ \A q \in Questions : editors.at[q].text \in Texts /\ page.value[q] \in Texts \union {"own"}
    /\ review # NoReview => review.by = session /\ editors.of = review.id
    /\ told \in {"idle", "waiting", "filling", "complete", "rejected", "uncertain", "not sent"}
    /\ op.opened \subseteq op.left \intersect Dropdowns

\* An answer that a job wrote is shown with the preview it was asked for, however
\* late it came (popup.js:149).
AnswersOfThisPreview ==
    \A q \in Questions : editors.at[q].from \in {0, editors.of}

\* What a fill sends is what the popup shows when it is sent: no more, no less.
SentAsShown ==
    (op.kind = "fill" /\ op.stage \in {"page", "writing"} /\ editors.of = op.review.id) =>
        /\ \A q \in DOMAIN op.approved : editors.at[q].text = op.approved[q]
        /\ \A q \in Questions : editors.at[q].blocked \/ editors.at[q].text = "empty"
                                    \/ q \in DOMAIN op.approved

\* A question of a preview is sent to the page once, whatever became of the fill.
OneAttemptPerQuestion == \A q \in Questions : sent[q] <= 1

\* "Never claim that a missing result proves nothing happened": the popup says so
\* only when nothing was written, and that it is done only of what it wrote.
ToldTruly ==
    /\ told \in {"rejected", "not sent"} => wrote = {}
    /\ op.filled \subseteq wrote

\* An answer on the website is not overwritten, unless it was chosen while the
\* script waited for the list of that very dropdown to open.
WebsiteKept ==
    [][\A q \in Questions :
        (page'.document = page.document /\ page.value[q] = "own" /\ q \notin op.opened)
            => page'.value[q] = "own"]_popupVars

\* A job changes no answer the user has edited or that is there already, and none
\* while another operation than its fill is under way.
EditsKept ==
    [][\A q \in Questions :
        LET before == editors.at[q]
            after == editors'.at[q]
        IN  (editors'.of = editors.of /\ op' = op /\ before # after) =>
                IF after.edited THEN ~Busy
                ELSE /\ before.text = "empty" /\ ~before.edited
                     /\ (Busy /\ after.text = "ai") => op.pending]_popupVars

\* The preparation of the shown preview ends: a fill waits for it.
PreparationOpen == review # NoReview /\ job[review.id].status = "preparing"
PreparationEnds == PreparationOpen ~> ~PreparationOpen
===============================================================================
