-------------------------- MODULE ApplicationRecords --------------------------
(***************************************************************************)
(* The recorded application of one user for one posting: manual creation,  *)
(* creation from a confirmed assistant form, status changes and the saved  *)
(* answers (backend/app/applications/service.py, schemas.py and            *)
(* backend/app/assistant/service.py).                                      *)
(*                                                                         *)
(* Requests are served by worker threads, each in its own READ COMMITTED   *)
(* session with no row lock, so another worker may act between the read of *)
(* a request and its write.  The rows of other users and postings are      *)
(* never read.  Requests the code refuses (404, 409, 422) change nothing   *)
(* and are no steps.                                                       *)
(***************************************************************************)
CONSTANTS Threads,    \* workers serving requests
          Fields,     \* fields of the posting's application form
          Required,   \* those the form marks required
          Texts,      \* non-empty answers
          NoRow       \* no application recorded

ASSUME FieldsAssumption == Required \subseteq Fields
ASSUME TextsAssumption == Texts \intersect {"unset", "null", "blank"} = {}

VARIABLES
    row,       \* the applications row with the mapping record stored with it
    request    \* what each worker has read and is about to write

vars == <<row, request>>

Statuses == {"draft", "submitted", "interviewing", "offered", "rejected", "withdrawn"}
Sent == Statuses \ {"draft", "withdrawn"}

AllowedTransitions ==
    [s \in Statuses |->
        CASE s = "draft" -> {"submitted", "withdrawn"}
          [] s = "submitted" -> {"interviewing", "rejected", "withdrawn"}
          [] s = "interviewing" -> {"offered", "rejected", "withdrawn"}
          [] s = "offered" -> {"withdrawn"}
          [] OTHER -> {}]

\* submitted_at: NULL, supplied by the user, or taken from the clock.
Times == {"none", "given", "now"}

-----------------------------------------------------------------------------
\* Confirmed forms.

\* A value in the draft or among the edits: "unset" is a key that is not there,
\* "null" a key without a value, "blank" nothing but whitespace.
Values == Texts \union {"unset", "null", "blank"}

Forms == [suggested : [Fields -> Values],
          edited    : [Fields -> Values],
          confirmed : SUBSET Fields]
NoForm == [suggested |-> [f \in Fields |-> "unset"],
           edited |-> [f \in Fields |-> "unset"], confirmed |-> {}]

Suggested(form) == {f \in Fields : form.suggested[f] # "unset"}
Edited(form) == {f \in Fields : form.edited[f] # "unset"}
Selected(form) == form.confirmed \union Edited(form)

\* Mutant: the check looks at the suggestion although the user edited the field.
SuggestionFirst(form, f) ==
    IF f \in Suggested(form) THEN form.suggested[f] ELSE form.edited[f]

\* The value the check of a new application looks at.
FinalValue(form, f) == IF f \in Edited(form) THEN form.edited[f] ELSE form.suggested[f]

WellFormed(form) ==
    /\ form.confirmed # {}
    /\ form.confirmed \subseteq Suggested(form) \union Edited(form)

Confirmable(form) ==
    /\ WellFormed(form)
    /\ Required \subseteq Selected(form)
    /\ \A f \in Required : FinalValue(form, f) \notin {"unset", "null", "blank"}

\* What GET /applications/{id}/answers returns: one answer per selected field.
SavedAnswers(form) ==
    [f \in Selected(form) |->
        LET value == IF f \in Edited(form) THEN form.edited[f] ELSE form.suggested[f]
        IN  IF value \in {"unset", "null"} THEN "blank" ELSE value]

-----------------------------------------------------------------------------
Rows == [method : {"manual", "assistant"}, status : Statuses,
         submitted_at : Times, form : Forms]

ASSUME NoRowAssumption == NoRow \notin Rows

Idle == [op |-> "idle", target |-> "draft", seen |-> "draft", at |-> "none"]

TypeOK ==
    /\ row \in Rows \union {NoRow}
    /\ request \in [Threads -> [op : {"idle", "create", "update"}, target : Statuses,
                                seen : Statuses, at : Times]]

Init ==
    /\ row = NoRow
    /\ request = [t \in Threads |-> Idle]

Answered(t) == request' = [request EXCEPT ![t] = Idle]

-----------------------------------------------------------------------------
\* POST /jobs/{id}/applications finds no application.  A new record is a draft
\* without a date, or submitted with the date given or the present time.
MayCreate(status, at) == \/ status = "draft" /\ at = "none"
                         \/ status = "submitted" /\ at \in {"given", "now"}

CheckManual(t) ==
    /\ request[t].op = "idle"
    /\ row = NoRow
    /\ \E status \in Statuses, at \in Times :
          /\ MayCreate(status, at)
          /\ request' = [request EXCEPT ![t] = [op |-> "create", target |-> status,
                                                seen |-> "draft", at |-> at]]
    /\ UNCHANGED row

\* Mutant: no unique key on user and posting.
InsertAlways(t) ==
    row' = [method |-> "manual", status |-> request[t].target,
            submitted_at |-> request[t].at, form |-> NoForm]

\* The insert; the unique key on user and posting turns a duplicate into a 409.
Insert(t) ==
    row' = IF row # NoRow THEN row
           ELSE [method |-> "manual", status |-> request[t].target,
                 submitted_at |-> request[t].at, form |-> NoForm]

InsertManual(t) ==
    /\ request[t].op = "create"
    /\ Insert(t)
    /\ Answered(t)

\* POST /assistant/applications: it reads nothing but the fixed form before its
\* one commit, which fails on the same unique key.
CreateAssistant(t) ==
    /\ request[t].op = "idle"
    /\ row = NoRow
    /\ \E form \in Forms :
          /\ Confirmable(form)
          /\ row' = [method |-> "assistant", status |-> "submitted",
                     submitted_at |-> "now", form |-> form]
    /\ UNCHANGED request

-----------------------------------------------------------------------------
\* PATCH /applications/{id}: the row is read and the transition checked ...
ReadStatus(t) ==
    /\ request[t].op = "idle"
    /\ row # NoRow
    /\ \E target \in AllowedTransitions[row.status] :
          request' = [request EXCEPT ![t] = [op |-> "update", target |-> target,
                                             seen |-> row.status, at |-> row.submitted_at]]
    /\ UNCHANGED row

\* Mutant: submitted_at is set by creation only.
NeverStamps(t) == FALSE

\* ... and the changed columns are written, whatever the row holds by then.
Stamps(t) == request[t].target = "submitted" /\ request[t].at = "none"

\* Mutant: the new status is stored in place of the time.
WriteSwapped(t) ==
    row' = [row EXCEPT !.status = request[t].target,
                       !.submitted_at = IF Stamps(t) THEN request[t].target ELSE @]

Write(t) ==
    row' = [row EXCEPT !.status = request[t].target,
                       !.submitted_at = IF Stamps(t) THEN "now" ELSE @]

WriteStatus(t) ==
    /\ request[t].op = "update"
    /\ Write(t)
    /\ Answered(t)

Next == \E t \in Threads : \/ CheckManual(t)
                           \/ InsertManual(t)
                           \/ CreateAssistant(t)
                           \/ ReadStatus(t)
                           \/ WriteStatus(t)

Spec == Init /\ [][Next]_vars

-----------------------------------------------------------------------------
\* An application that has been sent, or has got an answer, carries the time of
\* its submission, even when overlapping status changes overwrite each other.
Stamped == row # NoRow /\ row.status \in Sent => row.submitted_at # "none"

\* The answers shown for an assistant application have a non-empty value for
\* every required field: the check made on creation and the reader, two pieces
\* of code, agree on which value of a field is final.
AnswersComplete ==
    row # NoRow /\ row.method = "assistant" =>
        \A f \in Required : /\ f \in DOMAIN SavedAnswers(row.form)
                            /\ SavedAnswers(row.form)[f] \in Texts

\* Once recorded an application is never replaced by one of an overlapping
\* creation: its method, its answers, and a submission date the user gave stay.
RecordKept ==
    [][row # NoRow =>
          /\ row' # NoRow
          /\ row'.method = row.method
          /\ row'.form = row.form
          /\ row.submitted_at = "given" => row'.submitted_at = "given"]_vars

\* A rejected or withdrawn application is terminal
\* (docs/member2/BLOCK_3_PROFILE_APPLICATION_PROGRESS_REPORT.md).
TerminalFinal ==
    [][row # NoRow /\ row.status \in {"rejected", "withdrawn"} =>
          row'.status = row.status]_vars
=============================================================================
