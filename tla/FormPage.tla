--------------------------------- MODULE FormPage ---------------------------------
(***************************************************************************)
(* The assistant's application form in the browser, the draft it starts    *)
(* from and the record it ends in (frontend ApplicationFormPage.tsx and    *)
(* auth.ts; backend/app/assistant/router.py and mapping.py).               *)
(*                                                                         *)
(* The page loads the form of a posting and a draft of its answers made    *)
(* from the saved profile of the account it began with; the user confirms  *)
(* or rewrites answers and saves a record.  Another tab may change the     *)
(* account at any step and this tab hears of it later.  A save that timed  *)
(* out may still reach the server, and the user may change answers and     *)
(* save again.  What the server accepts and what it later shows of a       *)
(* record is ApplicationRecords', instantiated here.                       *)
(*                                                                         *)
(* Forms with fields the page cannot edit are refused when they load.      *)
(* Every field is classified: "direct" for one saved fact, "drafted" for a *)
(* short text on some evidence, "manual" otherwise.                        *)
(***************************************************************************)
EXTENDS Naturals, Sequences

CONSTANTS Accounts,
          NoAccount,   \* nobody is signed in
          NoRecord,    \* no application recorded
          FormFields,  \* field ids of the form
          Needed,      \* those that are required
          Kind,        \* class of each field: direct, drafted or manual
          Mappable,    \* fields of a type the mapping fills
          Fact,        \* saved fact of each account for a direct field, or "none"
          Evidence,    \* drafted fields the account's profile has evidence for
          MaxSwitches, \* bounds: changes of account,
          MaxSaves     \*   and saves

ASSUME FormNames ==
    /\ NoAccount \notin Accounts
    /\ Needed \subseteq FormFields /\ Mappable \subseteq FormFields
    /\ Kind \in [FormFields -> {"direct", "drafted", "manual"}]
    /\ DOMAIN Fact = Accounts /\ \A a \in Accounts : DOMAIN Fact[a] = FormFields
    /\ \A a \in Accounts, f \in FormFields : Fact[a][f] \notin {"unset", "null", "blank"}
    /\ Evidence \in [Accounts -> SUBSET FormFields]
ASSUME FormBounds == {MaxSwitches, MaxSaves} \subseteq Nat

VARIABLES
    token,    \* account of the token in the browser's storage
    form,     \* the page
    saves,    \* requests to save a record, in the order sent
    record,   \* the application recorded for each account
    switches  \* changes of account so far
formVars == <<token, form, saves, record, switches>>

Facts == {Fact[a][f] : a \in Accounts, f \in FormFields}
AnswerTexts == Facts \union {"drafted", "typed"}
R == INSTANCE ApplicationRecords WITH
        Threads <- {}, Fields <- FormFields, Required <- Needed, Texts <- AnswerTexts,
        NoRow <- NoRecord, row <- record, request <- saves

\* Answers as they were on the screen.
Seen == UNION {[S -> AnswerTexts \union {"blank"}] : S \in SUBSET FormFields}
\* NoRecord is no record.
ASSUME NoRecordIsNone == NoRecord \notin [form : R!Forms, seen : Seen]

Nothing(x) == [f \in FormFields |-> x]
LoadedFor(a) ==
    [account |-> a, stage |-> IF a = NoAccount THEN "failed" ELSE "loading",
     value |-> Nothing("blank"), status |-> Nothing("pending"), level |-> Nothing("low"),
     suggested |-> Nothing("unset"), awaits |-> 0]

FormInit ==
    /\ token \in Accounts
    /\ form = LoadedFor(token)
    /\ saves = <<>>
    /\ record = [a \in Accounts |-> NoRecord]
    /\ switches = 0
-------------------------------------------------------------------------------
(* The account *)

\* Another tab signs in or out.
SwitchAccount ==
    /\ switches < MaxSwitches
    /\ switches' = switches + 1
    /\ \E a \in Accounts \union {NoAccount} : a # token /\ token' = a
    /\ UNCHANGED <<form, saves, record>>

\* watchSession: the page drops all it shows and loads anew for the new account.
NoticeSwitch ==
    /\ form.account # token
    /\ form' = LoadedFor(token)
    /\ UNCHANGED <<token, saves, record, switches>>

\* What an answer is checked against when it arrives: current().
StillHere == form.account = token
Page(change) == form' = change /\ UNCHANGED <<token, saves, record, switches>>
-------------------------------------------------------------------------------
(* The draft: ProfileFormMappingService.map_fields *)

\* The model's answer for one field; it may be cut off, be for another field, be
\* blank or claim to need no review.
Replies == [finished : BOOLEAN, field : FormFields, value : {"blank", "drafted"},
            confidence : {"high", "middle", "low"}, review : BOOLEAN]
Failure == [finished |-> FALSE]
Fits(f, reply) == reply.finished /\ reply.field = f /\ reply.value # "blank"

NoSuggestion == [value |-> "unset", confidence |-> "low", review |-> TRUE]
\* A drafted answer is never as sure as a saved fact and always needs a review.
Capped(reply) ==
    [value |-> reply.value, review |-> TRUE,
     confidence |-> IF reply.confidence = "high" THEN "middle" ELSE reply.confidence]

Suggestion(a, f, reply) ==
    IF Kind[f] = "direct" /\ Fact[a][f] # "none" /\ f \in Mappable
      THEN [value |-> Fact[a][f], confidence |-> "high", review |-> FALSE]
    ELSE IF Kind[f] = "drafted" /\ f \in Evidence[a] /\ Fits(f, reply)
      THEN Capped(reply)
    ELSE NoSuggestion

\* What the page says of a suggestion: getConfLevel.
Level(s) ==
    IF s.confidence = "low" THEN "low"
    ELSE IF s.confidence = "high" /\ ~s.review THEN "high" ELSE "medium"

Shown(draft) ==
    [form EXCEPT !.stage = "ready",
       !.suggested = [f \in FormFields |-> draft[f].value],
       !.value = [f \in FormFields |-> IF draft[f].value = "unset" THEN "blank"
                                       ELSE draft[f].value],
       !.level = [f \in FormFields |-> IF draft[f].value = "unset" THEN "low"
                                       ELSE Level(draft[f])]]

\* The form arrives, there is none, it cannot be edited here, or loading fails.
FormArrives ==
    /\ form.stage = "loading" /\ StillHere
    /\ \E s \in {"mapping", "failed"} : Page([form EXCEPT !.stage = s])

\* The draft for the account of the request; without one the user fills the form,
\* and a refusal of the account ends the page.
DraftArrives ==
    /\ form.stage = "mapping" /\ StillHere
    /\ \/ \E replies \in [{f \in FormFields : Kind[f] = "drafted"} -> Replies \union {Failure}] :
             Page(Shown([f \in FormFields |->
                            Suggestion(form.account, f,
                               IF f \in DOMAIN replies THEN replies[f] ELSE Failure)]))
       \/ Page(Shown([f \in FormFields |-> NoSuggestion]))
       \/ Page([form EXCEPT !.stage = "failed"])
-------------------------------------------------------------------------------
(* The user *)

ConfirmField(f) ==
    /\ form.stage = "ready"
    /\ form.status[f] = "pending" /\ form.value[f] # "blank"
    /\ Page([form EXCEPT !.status[f] = "confirmed"])

EditField(f) ==
    /\ form.stage = "ready"
    /\ \E v \in {"typed", "blank"} :
          /\ form.value[f] # v
          /\ Page([form EXCEPT !.value[f] = v, !.status[f] = "edited"])

Touched == {f \in FormFields : form.status[f] # "pending"}
ConfirmedIds == {f \in Touched : form.value[f] # "blank"}
\* What is sent: the draft as received, the confirmed fields and the edited values.
Payload ==
    [suggested |-> form.suggested, confirmed |-> ConfirmedIds,
     edited |-> [f \in FormFields |-> IF form.status[f] = "edited" THEN form.value[f]
                                      ELSE "unset"]]

SaveRecord ==
    /\ form.stage = "ready" /\ StillHere
    /\ Needed \subseteq ConfirmedIds /\ ConfirmedIds # {}
    /\ Len(saves) < MaxSaves
    /\ saves' = Append(saves, [account |-> form.account, form |-> Payload, answer |-> "none",
                               seen |-> [f \in Touched |-> form.value[f]]])
    /\ form' = [form EXCEPT !.stage = "saving", !.awaits = Len(saves) + 1]
    /\ UNCHANGED <<token, record, switches>>
-------------------------------------------------------------------------------
(* The server, and its answers *)

\* POST /assistant/applications, whenever it arrives: the unique key of user and
\* posting turns a second record into a 409.
SaveArrives(k) ==
    LET q == saves[k]
        accepted == record[q.account] = NoRecord /\ R!Confirmable(q.form)
    IN  /\ q.answer = "none"
        /\ saves' = [saves EXCEPT ![k].answer = IF accepted THEN "saved" ELSE "refused"]
        /\ record' = IF accepted
                     THEN [record EXCEPT ![q.account] = [form |-> q.form, seen |-> q.seen]]
                     ELSE record
        /\ UNCHANGED <<token, form, switches>>

SaveAnswered ==
    /\ form.awaits # 0 /\ StillHere
    /\ saves[form.awaits].answer # "none"
    /\ Page([form EXCEPT !.awaits = 0,
               !.stage = IF saves[form.awaits].answer = "saved" THEN "saved" ELSE "ready"])

\* The page gives up after 15 seconds and keeps the answers for another try.
SaveTimesOut ==
    /\ form.awaits # 0 /\ StillHere
    /\ Page([form EXCEPT !.awaits = 0, !.stage = "ready"])

\* An answer that comes while another account is signed in is dropped.
AnswerDropped ==
    /\ ~StillHere
    /\ \/ form.stage \in {"loading", "mapping"} /\ Page([form EXCEPT !.stage = "stopped"])
       \/ form.awaits # 0 /\ Page([form EXCEPT !.awaits = 0])

FormPageNext ==
    \/ SwitchAccount \/ NoticeSwitch \/ FormArrives \/ DraftArrives
    \/ \E f \in FormFields : ConfirmField(f) \/ EditField(f)
    \/ SaveRecord \/ \E k \in DOMAIN saves : SaveArrives(k)
    \/ SaveAnswered \/ SaveTimesOut \/ AnswerDropped

FormPageSpec == FormInit /\ [][FormPageNext]_formVars
-------------------------------------------------------------------------------
(* Properties *)

\* Every variable has its type, and the page waits for a save it has sent.
FormPageTypes ==
    /\ token \in Accounts \union {NoAccount} /\ form.account \in Accounts \union {NoAccount}
    /\ form.stage \in {"loading", "mapping", "ready", "saving", "saved", "failed", "stopped"}
    /\ \A f \in FormFields :
          /\ form.value[f] \in AnswerTexts \union {"blank"}
          /\ form.suggested[f] \in AnswerTexts \union {"unset"}
          /\ form.status[f] \in {"pending", "confirmed", "edited"}
          /\ form.level[f] \in {"low", "medium", "high"}
    /\ form.awaits \in 0..Len(saves)
    /\ form.awaits # 0 => form.stage = "saving" /\ saves[form.awaits].account = form.account
    /\ \A k \in DOMAIN saves : R!WellFormed(saves[k].form)

\* "Saved" is said of exactly the answers on the page, although an earlier try that
\* timed out may have arrived with others (ApplicationFormPage.tsx:228).
SavedIsShown ==
    form.stage = "saved" =>
        /\ record[form.account] # NoRecord
        /\ R!SavedAnswers(record[form.account].form) = [f \in Touched |-> form.value[f]]

\* A record answers what its account confirmed or typed, as it was on the screen, and
\* holds no suggestion made from another account's profile (ApplicationFormPage.tsx:58).
RecordIsReviewed ==
    \A a \in Accounts : record[a] # NoRecord =>
        /\ R!SavedAnswers(record[a].form) = record[a].seen
        /\ \A f \in FormFields : Kind[f] = "direct" =>
              record[a].form.suggested[f] \in {"unset", Fact[a][f]}

\* The page is sure of a suggestion only when it is the account's own saved fact,
\* whatever the model claims about a text it drafted (mapping.py:322).
SureOfFactsOnly ==
    \A f \in FormFields : form.level[f] = "high" =>
        Kind[f] = "direct" /\ form.suggested[f] = Fact[form.account][f]

\* A record, once saved, is not replaced by a late or repeated save.
RecordStays ==
    [][\A a \in Accounts : record[a] # NoRecord => record'[a] = record[a]]_record
===============================================================================
