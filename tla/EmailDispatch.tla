----------------------------- MODULE EmailDispatch -----------------------------
(***************************************************************************)
(* The email application of one candidate for one posting: create, edit,   *)
(* preview and send requests served concurrently, the operator who changes *)
(* the posting or its email policy, the candidate who changes the contact  *)
(* address, and the SMTP server                                            *)
(* (backend/app/email_applications/router.py and transport.py).            *)
(*                                                                         *)
(* A request runs in its own session at READ COMMITTED and keeps the row   *)
(* it loaded (expire_on_commit is off), so its reads are separate steps    *)
(* from its one conditional UPDATE, which is atomic with the subquery that *)
(* checks policy and posting again.  A preview issues a fresh token, so    *)
(* the request names it.  A content hash is as good as the hashed          *)
(* snapshot.                                                               *)
(***************************************************************************)
CONSTANTS Requests,   \* HTTP requests, of any kind
          Texts,      \* subject and body of a draft
          Pdfs,       \* attached files (name and bytes)
          Channels,   \* valid states of posting and policy
          Contacts,   \* valid reply addresses
          Nothing,    \* NULL; a closed posting or unusable address
          MayCrash    \* requests whose process may die

ASSUME NothingAssumption ==
    Nothing \notin Requests \union Texts \union Pdfs \union Channels \union Contacts
ASSUME CrashAssumption == MayCrash \subseteq Requests

VARIABLES
    app,       \* the email_applications row
    channel,   \* posting and policy as _policy and _source_guard see them
    contact,   \* the candidate's reply address
    mailbox,   \* messages the SMTP server accepted
    pc,        \* where each request is
    snap,      \* what a preview or send request has read
    token,     \* the review token a send request presents
    shown,     \* what the answer of a preview displayed
    verdict,   \* what deliver returned or raised
    claim      \* history: the request whose claim was committed, and its token

requestVars == <<pc, snap, token, shown, verdict>>
vars == <<app, channel, contact, mailbox, requestVars, claim>>

OrNothing(S) == S \union {Nothing}

Snapshot == [text : OrNothing(Texts), pdf : OrNothing(Pdfs),
             channel : OrNothing(Channels), contact : OrNothing(Contacts)]
Blank == [text |-> Nothing, pdf |-> Nothing, channel |-> Nothing, contact |-> Nothing]

Messages == [by : Requests, text : Texts, pdf : Pdfs, contact : Contacts]

Verdicts == {"sent", "failed", "unknown"}
Statuses == {"absent", "draft", "sending"} \union Verdicts

Location == {"idle", "creating", "editing", "previewRead", "previewReady", "issued",
             "sendRead", "sendReady", "claimed", "delivered", "answered", "dead"}

TypeOK ==
    /\ app \in [status : Statuses, text : OrNothing(Texts), pdf : OrNothing(Pdfs),
                digest : OrNothing(Requests), reviewed : Snapshot, expired : BOOLEAN]
    /\ channel \in OrNothing(Channels)
    /\ contact \in OrNothing(Contacts)
    /\ mailbox \subseteq Messages
    /\ pc \in [Requests -> Location]
    /\ snap \in [Requests -> Snapshot]
    /\ token \in [Requests -> OrNothing(Requests)]
    /\ shown \in [Requests -> Snapshot]
    /\ verdict \in [Requests -> OrNothing(Verdicts)]
    /\ claim \in [by : OrNothing(Requests), token : OrNothing(Requests)]

Init ==
    /\ app = [status |-> "absent", text |-> Nothing, pdf |-> Nothing,
              digest |-> Nothing, reviewed |-> Blank, expired |-> FALSE]
    /\ channel \in OrNothing(Channels)
    /\ contact \in OrNothing(Contacts)
    /\ mailbox = {}
    /\ pc = [r \in Requests |-> "idle"]
    /\ snap = [r \in Requests |-> Blank]
    /\ token = [r \in Requests |-> Nothing]
    /\ shown = [r \in Requests |-> Blank]
    /\ verdict = [r \in Requests |-> Nothing]
    /\ claim = [by |-> Nothing, token |-> Nothing]

Goto(r, to) == pc' = [pc EXCEPT ![r] = to]

\* The request ends; what only its session knew is forgotten.
Leave(r, to) ==
    /\ Goto(r, to)
    /\ snap' = [snap EXCEPT ![r] = Blank]
    /\ token' = [token EXCEPT ![r] = Nothing]
    /\ verdict' = [verdict EXCEPT ![r] = Nothing]

Answer(r) == Leave(r, "answered")
--------------------------------------------------------------------------------
(* Create and edit *)

\* create_draft: the policy is checked, then the row is inserted.
StartCreate(r) ==
    /\ pc[r] = "idle"
    /\ channel # Nothing
    /\ Goto(r, "creating")
    /\ UNCHANGED <<app, channel, contact, mailbox, snap, token, shown, verdict, claim>>

\* The unique (user, posting) constraint makes the second insert a conflict.
Insert(r, text, pdf) ==
    /\ pc[r] = "creating"
    /\ app' = IF app.status = "absent"
              THEN [app EXCEPT !.status = "draft", !.text = text, !.pdf = pdf]
              ELSE app
    /\ Answer(r)
    /\ UNCHANGED <<channel, contact, mailbox, shown, claim>>

\* replace_draft: the row is found and the policy checked.
StartEdit(r) ==
    /\ pc[r] = "idle"
    /\ app.status # "absent"
    /\ channel # Nothing
    /\ Goto(r, "editing")
    /\ UNCHANGED <<app, channel, contact, mailbox, snap, token, shown, verdict, claim>>

\* Mutant: the UPDATE does not ask whether the row is still a draft.
ReplaceAnyStatus(r, text, pdf, keep) ==
    /\ pc[r] = "editing"
    /\ app' = [app EXCEPT !.text = text, !.pdf = IF keep THEN @ ELSE pdf,
                          !.digest = Nothing, !.reviewed = Blank, !.expired = FALSE]
    /\ Answer(r)
    /\ UNCHANGED <<channel, contact, mailbox, shown, claim>>

\* The UPDATE of a draft, with the attachment or without touching it; the review
\* is withdrawn.
Replace(r, text, pdf, keep) ==
    /\ pc[r] = "editing"
    /\ app' = IF app.status = "draft"
              THEN [app EXCEPT !.text = text, !.pdf = IF keep THEN @ ELSE pdf,
                               !.digest = Nothing, !.reviewed = Blank, !.expired = FALSE]
              ELSE app
    /\ Answer(r)
    /\ UNCHANGED <<channel, contact, mailbox, shown, claim>>
--------------------------------------------------------------------------------
(* Preview *)

\* _owned loads the row: the draft's text and attachment as of now.
Load(r, to) ==
    /\ pc[r] = "idle"
    /\ app.status # "absent"
    /\ snap' = [snap EXCEPT ![r].text = app.text, ![r].pdf = app.pdf]
    /\ Goto(r, to)

StartPreview(r) ==
    /\ Load(r, "previewRead")
    /\ UNCHANGED <<app, channel, contact, mailbox, token, shown, verdict, claim>>

\* Mutant: the snapshot does not ask for an attached PDF.
GatherWithoutPdf(r, from, to) ==
    /\ pc[r] = from
    /\ IF channel # Nothing /\ contact # Nothing
       THEN /\ snap' = [snap EXCEPT ![r].channel = channel, ![r].contact = contact]
            /\ Goto(r, to)
            /\ UNCHANGED <<token, verdict>>
       ELSE Answer(r)
    /\ UNCHANGED <<app, channel, contact, mailbox, shown, claim>>

\* _snapshot: open posting, attached PDF and usable reply address, or an error.
Gather(r, from, to) ==
    /\ pc[r] = from
    /\ IF channel # Nothing /\ snap[r].pdf # Nothing /\ contact # Nothing
       THEN /\ snap' = [snap EXCEPT ![r].channel = channel, ![r].contact = contact]
            /\ Goto(r, to)
            /\ UNCHANGED <<token, verdict>>
       ELSE Answer(r)
    /\ UNCHANGED <<app, channel, contact, mailbox, shown, claim>>

\* Mutant: the status is not part of the WHERE clause.
StillAsReadAnyStatus(r) ==
    /\ app.text = snap[r].text
    /\ app.pdf = snap[r].pdf
    /\ channel = snap[r].channel

\* Mutant: policy and posting are not checked again.
StillAsReadUnguarded(r) ==
    /\ app.status = "draft"
    /\ app.text = snap[r].text
    /\ app.pdf = snap[r].pdf

\* The part of the WHERE clause that preview and send share.
StillAsRead(r) ==
    /\ app.status = "draft"
    /\ app.text = snap[r].text
    /\ app.pdf = snap[r].pdf
    /\ channel = snap[r].channel

\* The UPDATE that stores the review and its token.
Issue(r) ==
    /\ pc[r] = "previewReady"
    /\ IF StillAsRead(r)
       THEN /\ app' = [app EXCEPT !.digest = r, !.reviewed = snap[r], !.expired = FALSE]
            /\ Goto(r, "issued")
            /\ UNCHANGED <<snap, token, verdict>>
       ELSE UNCHANGED app /\ Answer(r)
    /\ UNCHANGED <<channel, contact, mailbox, shown, claim>>

\* The row is read again for the answer, which shows the stored review, or the
\* current channel and contact if an edit has removed it since.
Show(r) ==
    /\ pc[r] = "issued"
    /\ IF app.reviewed # Blank
       THEN shown' = [shown EXCEPT ![r] =
               [app.reviewed EXCEPT !.text = app.text, !.pdf = app.pdf]]
       ELSE \/ /\ contact # Nothing
               /\ shown' = [shown EXCEPT ![r] =
                     [text |-> app.text, pdf |-> app.pdf, channel |-> channel,
                      contact |-> contact]]
            \/ contact = Nothing /\ UNCHANGED shown
    /\ Answer(r)
    /\ UNCHANGED <<app, channel, contact, mailbox, claim>>

\* Five minutes pass.
Expire ==
    /\ app.digest # Nothing
    /\ app' = [app EXCEPT !.expired = TRUE]
    /\ UNCHANGED <<channel, contact, mailbox, requestVars, claim>>
--------------------------------------------------------------------------------
(* Send *)

\* A client can present the token of any preview that was answered.
StartSend(r, p) ==
    /\ pc[p] = "answered"
    /\ shown[p] # Blank
    /\ Load(r, "sendRead")
    /\ token' = [token EXCEPT ![r] = p]
    /\ UNCHANGED <<app, channel, contact, mailbox, shown, verdict, claim>>

\* Mutant: the stored content hash is not compared.
ClaimableUnhashed(r) ==
    /\ StillAsRead(r)
    /\ app.digest = token[r]
    /\ ~app.expired

\* The WHERE clause of the claim.
Claimable(r) ==
    /\ StillAsRead(r)
    /\ app.digest = token[r]
    /\ app.reviewed = snap[r]
    /\ ~app.expired

\* The claim is committed before any SMTP traffic.
Claim(r) ==
    /\ pc[r] = "sendReady"
    /\ IF Claimable(r)
       THEN /\ app' = [app EXCEPT !.status = "sending", !.digest = Nothing]
            /\ claim' = [by |-> r, token |-> token[r]]
            /\ Goto(r, "claimed")
            /\ UNCHANGED <<snap, token, verdict>>
       ELSE UNCHANGED <<app, claim>> /\ Answer(r)
    /\ UNCHANGED <<channel, contact, mailbox, shown>>

MessageOf(r) == [by |-> r, text |-> snap[r].text, pdf |-> snap[r].pdf,
                 contact |-> snap[r].contact]

\* deliver: accepted; refused, or the server could not be reached; or the
\* connection broke after the dialogue began, and the server may have it or not.
Deliver(r, outcome) ==
    /\ pc[r] = "claimed"
    /\ \/ outcome \in {"sent", "unknown"} /\ mailbox' = mailbox \union {MessageOf(r)}
       \/ outcome \in {"failed", "unknown"} /\ UNCHANGED mailbox
    /\ verdict' = [verdict EXCEPT ![r] = outcome]
    /\ Goto(r, "delivered")
    /\ UNCHANGED <<app, channel, contact, snap, token, shown, claim>>

\* Mutant: the row is looked up by the review token the claim consumed.
RecordByToken(r) ==
    /\ pc[r] = "delivered"
    /\ app' = IF app.digest = token[r] THEN [app EXCEPT !.status = verdict[r]] ELSE app
    /\ Answer(r)
    /\ UNCHANGED <<channel, contact, mailbox, shown, claim>>

\* The outcome is recorded on the row the request claimed.
Record(r) ==
    /\ pc[r] = "delivered"
    /\ app' = IF app.status = "sending" THEN [app EXCEPT !.status = verdict[r]] ELSE app
    /\ Answer(r)
    /\ UNCHANGED <<channel, contact, mailbox, shown, claim>>

\* The process dies, or an exception other than DeliveryError escapes.
Crash(r) ==
    /\ r \in MayCrash
    /\ pc[r] \notin {"idle", "answered", "dead"}
    /\ Leave(r, "dead")
    /\ UNCHANGED <<app, channel, contact, mailbox, shown, claim>>
--------------------------------------------------------------------------------
\* The operator or a collection changes the posting or its policy.
ChangeChannel(c) ==
    /\ channel' = c
    /\ UNCHANGED <<app, contact, mailbox, requestVars, claim>>

\* The candidate saves another contact address.
ChangeContact(k) ==
    /\ contact' = k
    /\ UNCHANGED <<app, channel, mailbox, requestVars, claim>>

Serve(r) ==
    \/ \E text \in Texts, pdf \in OrNothing(Pdfs) :
          \/ Insert(r, text, pdf)
          \/ \E keep \in BOOLEAN : Replace(r, text, pdf, keep)
    \/ Gather(r, "previewRead", "previewReady") \/ Issue(r) \/ Show(r)
    \/ Gather(r, "sendRead", "sendReady") \/ Claim(r)
    \/ \E outcome \in Verdicts : Deliver(r, outcome)
    \/ Record(r)

Next ==
    \/ \E r \in Requests :
          \/ StartCreate(r) \/ StartEdit(r) \/ StartPreview(r)
          \/ \E p \in Requests : StartSend(r, p)
          \/ Serve(r)
          \/ Crash(r)
    \/ Expire
    \/ \E c \in OrNothing(Channels) : ChangeChannel(c)
    \/ \E k \in OrNothing(Contacts) : ChangeContact(k)

Spec == Init /\ [][Next]_vars

\* The server works on a request it has accepted; SMTP has a 5 s timeout.
FairSpec == Spec /\ \A r \in Requests : WF_vars(Serve(r))
--------------------------------------------------------------------------------
(* Properties *)

\* The candidate and the posting get one dispatch at most, of one message, and
\* the status never contradicts the mailbox: "sent" only for an accepted message,
\* "failed" only if none was, also when requests are repeated, race or die
\* (router.py:385-444).
Dispatch == INSTANCE OneDispatch WITH
    NoMessage <- Nothing,
    status <- app.status,
    message <- IF claim.by = Nothing THEN Nothing
               ELSE [by |-> claim.by, text |-> app.reviewed.text,
                     pdf |-> app.reviewed.pdf, contact |-> app.reviewed.contact]
DispatchSpec == Dispatch!Spec

\* A message is sent as the candidate saw it in the answer of the preview whose
\* token the request presented, whatever was edited, reviewed again or changed
\* between the preview's commit, its answer and the dispatch (router.py:345-382).
DeliveredAsShown ==
    \A m \in mailbox :
        /\ claim.token # Nothing
        /\ shown[claim.token] = [app.reviewed EXCEPT !.text = m.text, !.pdf = m.pdf,
                                                     !.contact = m.contact]

\* At the commit of the claim the posting is open and its policy is the reviewed
\* one: a change between the handler's reads and its UPDATE stops the dispatch
\* (router.py:182-202).
ClaimedUnderCurrentPolicy ==
    [][app.status = "draft" /\ app'.status = "sending"
          => channel # Nothing /\ channel = app.reviewed.channel]_vars

\* Once claimed, what was reviewed stays on the record: no late edit or preview
\* changes it, and the status moves to a final one only (router.py:289-326).
FrozenOnceClaimed ==
    [][app.status \notin {"absent", "draft"} =>
          /\ app' = [app EXCEPT !.status = app'.status, !.expired = app'.expired]
          /\ \/ app'.status = app.status
             \/ app.status = "sending" /\ app'.status \in Verdicts]_vars

\* A dispatch that nothing kills comes to a final status (router.py:418-442).
DispatchConcludes ==
    app.status = "sending"
        ~> app.status \in Verdicts \/ \E r \in Requests : claim.by = r /\ pc[r] = "dead"

\* "... contact changes or configuration changes invalidate the review token"
\* (docs/member3/SCHEDULED_SOURCES_EMAIL_PILOT_20261023.md:34).
ContactChangeInvalidatesReview ==
    [][app.status = "draft" /\ app'.status = "sending"
          => contact = app.reviewed.contact]_vars
================================================================================
