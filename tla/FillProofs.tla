-------------------------------- MODULE FillProofs --------------------------------
(***************************************************************************)
(* Proofs about the form page (FormPage), the page bridge (PageBridge) and *)
(* the popup (PopupFill): an inductive invariant for each, for any         *)
(* questions, previews, clicks and turns, what they give for the browser   *)
(* as a whole (ExtensionMC), and that the fills of the popup and of the    *)
(* page implement OneFill.                                                 *)
(***************************************************************************)
EXTENDS ExtensionProofs


(* The form page *)

Levels == {"low", "medium", "high"}
FormShape == [account : Accounts \union {NoAccount},
              stage : {"loading", "mapping", "ready", "saving", "saved", "failed", "stopped"},
              value : [FormFields -> AnswerTexts \union {"blank"}],
              status : [FormFields -> {"pending", "confirmed", "edited"}],
              level : [FormFields -> Levels],
              suggested : [FormFields -> AnswerTexts \union {"unset"}], awaits : Nat]
SaveShape == [account : Accounts, form : R!Forms, answer : {"none", "saved", "refused"}, seen : Seen]
RecordShape == [form : R!Forms, seen : Seen]

FormTyping ==
    /\ token \in Accounts \union {NoAccount} /\ form \in FormShape
    /\ saves \in Seq(SaveShape)
    /\ record \in [Accounts -> RecordShape \union {NoRecord}]

\* Suggestions made from a's own profile.
SuggestedFor(a, suggested) ==
    \A f \in FormFields : Kind[f] = "direct" => suggested[f] \in {"unset", Fact[a][f]}

\* What the page shows is the suggestion, until the user has edited it.
FormInv ==
    /\ form.account \notin Accounts => form.stage = "failed"
    /\ form.stage \in {"loading", "mapping"} => \A f \in FormFields : form.status[f] = "pending"
    /\ SuggestedFor(form.account, form.suggested)
    /\ SureOfFactsOnly
    /\ \A f \in FormFields :
          /\ form.status[f] = "edited" => form.value[f] \in {"typed", "blank"}
          /\ form.status[f] # "edited" =>
                form.value[f] = IF form.suggested[f] = "unset" THEN "blank" ELSE form.suggested[f]
          /\ form.status[f] = "confirmed" => form.value[f] # "blank"

OnScreen == [f \in Touched |-> form.value[f]]

\* What is recorded or asked to be, as it was on the screen.
Reviewed(a, entry) == R!SavedAnswers(entry.form) = entry.seen /\ SuggestedFor(a, entry.form.suggested)

SaveInv ==
    /\ \A k \in DOMAIN saves :
          /\ R!WellFormed(saves[k].form) /\ Reviewed(saves[k].account, saves[k])
          /\ saves[k].answer = "saved" =>
                /\ record[saves[k].account] # NoRecord
                /\ record[saves[k].account].seen = saves[k].seen
    /\ \A a \in Accounts : record[a] # NoRecord => Reviewed(a, record[a])
    /\ form.awaits \in 0..Len(saves)
    /\ form.awaits # 0 => /\ form.stage = "saving" /\ saves[form.awaits].account = form.account
                          /\ saves[form.awaits].seen = OnScreen
    /\ form.stage = "saved" => /\ form.account \in Accounts /\ record[form.account] # NoRecord
                               /\ record[form.account].seen = OnScreen

PageInv == FormTyping /\ FormInv /\ SaveInv

LEMMA TextsFact ==
    /\ "typed" \in AnswerTexts /\ "drafted" \in AnswerTexts
    /\ AnswerTexts \intersect {"unset", "null", "blank"} = {}
    /\ \A a \in Accounts, f \in FormFields : Fact[a][f] \in AnswerTexts
    /\ NoAccount \notin Accounts /\ NoRecord \notin RecordShape
<1>1. \A a \in Accounts, f \in FormFields :
          Fact[a][f] \in Facts /\ Fact[a][f] \notin {"unset", "null", "blank"}
  BY FormNames DEF Facts
<1>2. \A t \in Facts : t \notin {"unset", "null", "blank"}
  BY <1>1 DEF Facts
<1>3. NoAccount \notin Accounts /\ NoRecord \notin RecordShape
  BY FormNames, NoRecordIsNone DEF RecordShape
<1>4. QED
  BY <1>1, <1>2, <1>3 DEF AnswerTexts

LEMMA LoadedFact ==
    ASSUME NEW a \in Accounts \union {NoAccount}
    PROVE  /\ LoadedFor(a) \in FormShape
           /\ LoadedFor(a).account = a /\ LoadedFor(a).awaits = 0
           /\ LoadedFor(a).stage \in {"failed", "loading"}
           /\ a \notin Accounts => LoadedFor(a).stage = "failed"
           /\ \A f \in FormFields :
                 /\ LoadedFor(a).status[f] = "pending" /\ LoadedFor(a).value[f] = "blank"
                 /\ LoadedFor(a).suggested[f] = "unset" /\ LoadedFor(a).level[f] = "low"
<1>1. /\ Nothing("blank") \in [FormFields -> AnswerTexts \union {"blank"}]
      /\ Nothing("pending") \in [FormFields -> {"pending", "confirmed", "edited"}]
      /\ Nothing("low") \in [FormFields -> Levels]
      /\ Nothing("unset") \in [FormFields -> AnswerTexts \union {"unset"}]
  BY DEF Nothing, Levels
<1>2. \A f \in FormFields :
          /\ Nothing("blank")[f] = "blank" /\ Nothing("pending")[f] = "pending"
          /\ Nothing("low")[f] = "low" /\ Nothing("unset")[f] = "unset"
  BY DEF Nothing
<1>3. QED
  BY <1>1, <1>2, TextsFact DEF LoadedFor, FormShape

\* A page that has just begun, beside whatever was saved before.
LEMMA LoadedKeeps ==
    ASSUME PageInv, NEW a \in Accounts \union {NoAccount}, form' = LoadedFor(a),
           UNCHANGED <<token, saves, record>>
    PROVE  PageInv'
<1>1. FormTyping'
  BY LoadedFact DEF PageInv, FormTyping
<1>2. FormInv'
  BY LoadedFact DEF FormInv, SuggestedFor, SureOfFactsOnly
<1>3. SaveInv'
  BY LoadedFact DEF PageInv, SaveInv, FormTyping
<1>4. QED
  BY <1>1, <1>2, <1>3 DEF PageInv

LEMMA PageInitInv == FormInit => PageInv
<1> SUFFICES ASSUME FormInit
             PROVE  PageInv
  OBVIOUS
<1>0. /\ token \in Accounts /\ form = LoadedFor(token) /\ saves = <<>>
      /\ record = [a \in Accounts |-> NoRecord]
  BY DEF FormInit
<1>1. FormTyping
  BY <1>0, LoadedFact DEF FormTyping
<1>2. FormInv
  BY <1>0, LoadedFact DEF FormInv, SuggestedFor, SureOfFactsOnly
<1>3. SaveInv
  BY <1>0, LoadedFact DEF SaveInv
<1>4. QED
  BY <1>1, <1>2, <1>3 DEF PageInv

LEMMA PageHas ==
    ASSUME PageInv
    PROVE  /\ FormTyping /\ FormInv /\ SaveInv /\ form \in FormShape /\ saves \in Seq(SaveShape)
           /\ token \in Accounts \union {NoAccount}
           /\ record \in [Accounts -> RecordShape \union {NoRecord}]
           /\ Len(saves) \in Nat /\ \A k \in DOMAIN saves : saves[k] \in SaveShape
  BY DEF PageInv, FormTyping

\* What is sent is what is on the screen, and can be read back from the record.
LEMMA PayloadFact ==
    ASSUME PageInv, form.account \in Accounts
    PROVE  /\ Payload \in R!Forms /\ OnScreen \in Seen
           /\ R!SavedAnswers(Payload) = OnScreen
           /\ SuggestedFor(form.account, Payload.suggested)
           /\ ConfirmedIds # {} => R!WellFormed(Payload)
<1> DEFINE edits == [f \in FormFields |-> IF form.status[f] = "edited" THEN form.value[f] ELSE "unset"]
<1>1. /\ form.value \in [FormFields -> AnswerTexts \union {"blank"}]
      /\ form.status \in [FormFields -> {"pending", "confirmed", "edited"}]
      /\ form.suggested \in [FormFields -> AnswerTexts \union {"unset"}]
  BY PageHas DEF FormShape
<1>2. edits \in [FormFields -> AnswerTexts \union {"unset", "blank"}]
  BY <1>1
<1>3. ConfirmedIds \subseteq Touched /\ Touched \subseteq FormFields
  BY DEF ConfirmedIds, Touched
<1>4. /\ Payload.suggested = form.suggested /\ Payload.edited = edits
      /\ Payload.confirmed = ConfirmedIds
      /\ Payload = [suggested |-> form.suggested, confirmed |-> ConfirmedIds, edited |-> edits]
  BY DEF Payload
<1>5. Payload \in R!Forms
  <2>1. form.suggested \in [FormFields -> R!Values] /\ edits \in [FormFields -> R!Values]
    BY <1>1, <1>2 DEF R!Values
  <2>2. ConfirmedIds \in SUBSET FormFields
    BY <1>3
  <2> HIDE DEF edits
  <2>3. QED
    BY <1>4, <2>1, <2>2 DEF R!Forms
<1>6. OnScreen \in Seen
  <2>1. OnScreen \in [Touched -> AnswerTexts \union {"blank"}]
    BY <1>1, <1>3 DEF OnScreen
  <2>2. QED
    BY <1>3, <2>1 DEF Seen
<1>7. R!Edited(Payload) = {f \in FormFields : form.status[f] = "edited"}
  BY <1>1, <1>4, TextsFact DEF R!Edited
<1>8. R!Selected(Payload) = Touched
  <2>1. \A f \in FormFields : form.status[f] = "confirmed" => f \in ConfirmedIds
    BY PageHas DEF FormInv, ConfirmedIds, Touched
  <2>2. \A f \in Touched : form.status[f] \in {"confirmed", "edited"}
    BY <1>1 DEF Touched
  <2>3. \A f \in FormFields : form.status[f] = "edited" => f \in Touched
    BY DEF Touched
  <2>4. QED
    BY <1>3, <1>4, <1>7, <2>1, <2>2, <2>3 DEF R!Selected
<1>9. ASSUME NEW f \in Touched
      PROVE  LET value == IF f \in R!Edited(Payload) THEN Payload.edited[f] ELSE Payload.suggested[f]
             IN  (IF value \in {"unset", "null"} THEN "blank" ELSE value) = form.value[f]
  <2>1. CASE form.status[f] = "edited"
    <3>1. f \in R!Edited(Payload) /\ Payload.edited[f] = form.value[f]
      BY <1>3, <1>4, <1>7, <2>1
    <3>2. form.value[f] \in AnswerTexts \union {"blank"}
      BY <1>1, <1>3
    <3>3. QED
      BY <3>1, <3>2, TextsFact
  <2>2. CASE form.status[f] # "edited"
    <3>1. f \notin R!Edited(Payload) /\ Payload.suggested[f] = form.suggested[f]
      BY <1>4, <1>7, <2>2
    <3>2. form.value[f] = IF form.suggested[f] = "unset" THEN "blank" ELSE form.suggested[f]
      BY <1>3, <2>2, PageHas DEF FormInv
    <3>3. form.suggested[f] \in AnswerTexts \union {"unset"}
      BY <1>1, <1>3
    <3>4. QED
      BY <3>1, <3>2, <3>3, TextsFact
  <2>3. QED
    BY <2>1, <2>2
<1>10. R!SavedAnswers(Payload) = OnScreen
  BY <1>8, <1>9 DEF R!SavedAnswers, OnScreen
<1>11. SuggestedFor(form.account, Payload.suggested)
  BY <1>4, PageHas DEF FormInv
<1>12. ConfirmedIds # {} => R!WellFormed(Payload)
  <2>1. \A f \in ConfirmedIds : f \in FormFields /\ form.value[f] # "blank"
    BY <1>3 DEF ConfirmedIds
  <2>2. \A f \in ConfirmedIds : f \in R!Suggested(Payload) \/ f \in R!Edited(Payload)
    BY <1>4, <1>7, <2>1, PageHas DEF FormInv, R!Suggested
  <2>3. QED
    BY <1>4, <2>2 DEF R!WellFormed
<1>13. QED
  BY <1>5, <1>6, <1>10, <1>11, <1>12

LEMMA SuggestionFact ==
    ASSUME NEW a \in Accounts, NEW f \in FormFields, NEW reply \in Replies \union {Failure}
    PROVE  LET s == Suggestion(a, f, reply)
           IN  /\ s.value \in AnswerTexts \union {"unset"} /\ Level(s) \in Levels
               /\ Kind[f] = "direct" => s.value \in {"unset", Fact[a][f]}
               /\ s.value # "unset" /\ Level(s) = "high" => Kind[f] = "direct" /\ s.value = Fact[a][f]
<1> DEFINE s == Suggestion(a, f, reply)
<1>0. Level(s) \in Levels
  BY DEF Level, Levels
<1>1. CASE Kind[f] = "direct" /\ Fact[a][f] # "none" /\ f \in Mappable
  <2>1. s = [value |-> Fact[a][f], confidence |-> "high", review |-> FALSE]
    BY <1>1 DEF Suggestion
  <2>2. s.value = Fact[a][f]
    BY <2>1
  <2>3. QED
    BY <1>0, <1>1, <2>2, TextsFact
<1>2. CASE Kind[f] = "drafted" /\ f \in Evidence[a] /\ Fits(f, reply)
  <2>1. s = Capped(reply)
    BY <1>2 DEF Suggestion
  <2>2. reply.finished
    BY <1>2 DEF Fits
  <2>3. reply \in Replies /\ reply.value = "drafted"
    BY <1>2, <2>2 DEF Fits, Replies, Failure
  <2>4. s.value = "drafted" /\ s.review = TRUE
    BY <2>1, <2>3 DEF Capped
  <2>5. Level(s) # "high"
    BY <2>4 DEF Level
  <2>6. QED
    BY <1>0, <1>2, <2>4, <2>5, TextsFact
<1>3. CASE s = NoSuggestion
  <2>1. s.value = "unset"
    BY <1>3 DEF NoSuggestion
  <2>2. QED
    BY <1>0, <2>1
<1>4. QED
  BY <1>1, <1>2, <1>3 DEF Suggestion

\* The page moves on, and shows what it showed.
LEMMA StageKeeps ==
    ASSUME PageInv, NEW stage \in {"mapping", "ready", "saved", "failed", "stopped", "saving"},
           form' = [form EXCEPT !.awaits = 0, !.stage = stage],
           UNCHANGED <<saves, record>>, token' \in Accounts \union {NoAccount},
           form.account \in Accounts,
           stage = "mapping" => form.stage = "loading",
           stage = "saved" => /\ record[form.account] # NoRecord
                              /\ record[form.account].seen = OnScreen
    PROVE  PageInv'
<1>1. /\ form' \in FormShape /\ form'.account = form.account /\ form'.value = form.value
      /\ form'.status = form.status /\ form'.level = form.level /\ form'.suggested = form.suggested
      /\ form'.stage = stage /\ form'.awaits = 0
  BY PageHas DEF FormShape
<1>2. FormTyping'
  BY <1>1, PageHas DEF FormTyping
<1>3. FormInv'
  BY <1>1, PageHas DEF FormInv, SuggestedFor, SureOfFactsOnly
<1>4. OnScreen' = OnScreen
  BY <1>1 DEF OnScreen, Touched
<1>5. SaveInv'
  BY <1>1, <1>4, PageHas DEF SaveInv
<1>6. QED
  BY <1>2, <1>3, <1>5 DEF PageInv

LEMMA AwaitsNothing ==
    ASSUME PageInv, form.stage # "saving" \/ form.awaits = 0, NEW stage
    PROVE  [form EXCEPT !.awaits = 0, !.stage = stage] = [form EXCEPT !.stage = stage]
<1>1. form.awaits = 0
  BY PageHas DEF SaveInv
<1>2. QED
  BY <1>1, PageHas DEF FormShape

LEMMA PageMovesStep ==
    ASSUME PageInv, \/ FormArrives \/ SaveAnswered \/ SaveTimesOut \/ AnswerDropped
                    \/ DraftArrives /\ form' = [form EXCEPT !.stage = "failed"]
    PROVE  PageInv'
<1>0. form.stage \in {"loading", "mapping"} \/ form.awaits # 0 => form.account \in Accounts
  BY PageHas DEF FormInv, SaveInv
<1>1. CASE FormArrives
  <2>1. PICK s \in {"mapping", "failed"} : Page([form EXCEPT !.stage = s])
    BY <1>1 DEF FormArrives
  <2>2. form.stage = "loading"
    BY <1>1 DEF FormArrives
  <2>3. form' = [form EXCEPT !.awaits = 0, !.stage = s]
    BY <2>1, <2>2, AwaitsNothing DEF Page
  <2>4. QED
    BY <1>0, <2>1, <2>2, <2>3, PageHas, StageKeeps DEF Page
<1>2. CASE DraftArrives /\ form' = [form EXCEPT !.stage = "failed"]
  <2>1. form.stage = "mapping" /\ UNCHANGED <<token, saves, record>>
    BY <1>2 DEF DraftArrives, Page
  <2>2. form' = [form EXCEPT !.awaits = 0, !.stage = "failed"]
    BY <1>2, <2>1, AwaitsNothing
  <2>3. QED
    BY <1>0, <2>1, <2>2, PageHas, StageKeeps
<1>3. CASE SaveAnswered
  <2> DEFINE s == IF saves[form.awaits].answer = "saved" THEN "saved" ELSE "ready"
  <2>1. form.awaits # 0 /\ form' = [form EXCEPT !.awaits = 0, !.stage = s]
    BY <1>3 DEF SaveAnswered, Page
  <2>2. UNCHANGED <<token, saves, record>>
    BY <1>3 DEF SaveAnswered, Page
  <2>3. form.awaits \in DOMAIN saves
    BY <2>1, PageHas DEF SaveInv
  <2>4. s = "saved" => record[form.account] # NoRecord /\ record[form.account].seen = OnScreen
    BY <2>1, <2>3, PageHas DEF SaveInv
  <2>5. s \in {"saved", "ready"}
    OBVIOUS
  <2> HIDE DEF s
  <2>6. QED
    BY <1>0, <2>1, <2>2, <2>4, <2>5, PageHas, StageKeeps
<1>4. CASE SaveTimesOut
  BY <1>0, <1>4, PageHas, StageKeeps DEF SaveTimesOut, Page
<1>5. CASE AnswerDropped
  <2>1. UNCHANGED <<token, saves, record>>
    BY <1>5 DEF AnswerDropped, Page
  <2>2. CASE form.stage \in {"loading", "mapping"} /\ Page([form EXCEPT !.stage = "stopped"])
    <3>1. form' = [form EXCEPT !.awaits = 0, !.stage = "stopped"]
      BY <2>2, AwaitsNothing DEF Page
    <3>2. QED
      BY <1>0, <2>1, <2>2, <3>1, PageHas, StageKeeps
  <2>3. CASE form.awaits # 0 /\ Page([form EXCEPT !.awaits = 0])
    <3>1. form.stage = "saving"
      BY <2>3, PageHas DEF SaveInv
    <3>2. form' = [form EXCEPT !.awaits = 0, !.stage = "saving"]
      BY <2>3, <3>1, PageHas DEF Page, FormShape
    <3>3. QED
      BY <1>0, <2>1, <2>3, <3>2, PageHas, StageKeeps
  <2>4. QED
    BY <1>5, <2>2, <2>3 DEF AnswerDropped
<1>6. QED
  BY <1>1, <1>2, <1>3, <1>4, <1>5

LEMMA ShownKeeps ==
    ASSUME PageInv, form.stage = "mapping", NEW draft, form' = Shown(draft),
           UNCHANGED <<token, saves, record>>,
           \A f \in FormFields :
               /\ draft[f].value \in AnswerTexts \union {"unset"} /\ Level(draft[f]) \in Levels
               /\ Kind[f] = "direct" => draft[f].value \in {"unset", Fact[form.account][f]}
               /\ draft[f].value # "unset" /\ Level(draft[f]) = "high" =>
                     Kind[f] = "direct" /\ draft[f].value = Fact[form.account][f]
    PROVE  PageInv'
<1> DEFINE suggested == [f \in FormFields |-> draft[f].value]
           value == [f \in FormFields |-> IF draft[f].value = "unset" THEN "blank"
                                          ELSE draft[f].value]
           level == [f \in FormFields |-> IF draft[f].value = "unset" THEN "low"
                                          ELSE Level(draft[f])]
<1>1. form' = [form EXCEPT !.stage = "ready", !.suggested = suggested, !.value = value, !.level = level]
  BY DEF Shown
<1>2. /\ suggested \in [FormFields -> AnswerTexts \union {"unset"}]
      /\ value \in [FormFields -> AnswerTexts \union {"blank"}]
      /\ level \in [FormFields -> Levels]
  BY DEF Levels
<1>3. \A f \in FormFields : /\ suggested[f] = draft[f].value
                            /\ value[f] = IF suggested[f] = "unset" THEN "blank" ELSE suggested[f]
                            /\ level[f] = "high" => suggested[f] # "unset" /\ Level(draft[f]) = "high"
  OBVIOUS
<1> HIDE DEF suggested, value, level
<1>4. /\ form' \in FormShape /\ form'.account = form.account /\ form'.value = value
      /\ form'.status = form.status /\ form'.level = level /\ form'.suggested = suggested
      /\ form'.stage = "ready" /\ form'.awaits = form.awaits
  <2>1. form \in FormShape
    BY PageHas
  <2>2. QED
    BY <1>1, <1>2, <2>1, ZenonT(60) DEF FormShape
<1>5. FormTyping'
  BY <1>4, PageHas DEF FormTyping
<1>6. form.account \in Accounts /\ form.awaits = 0 /\ \A f \in FormFields : form.status[f] = "pending"
  BY PageHas DEF FormInv, SaveInv
<1>7. SuggestedFor(form.account, form.suggested)'
  BY <1>3, <1>4 DEF SuggestedFor
<1>8. SureOfFactsOnly'
  BY <1>3, <1>4 DEF SureOfFactsOnly
<1>9. FormInv'
  BY <1>3, <1>4, <1>6, <1>7, <1>8 DEF FormInv
<1>10. SaveInv'
  BY <1>4, <1>6, PageHas DEF SaveInv
<1>11. QED
  BY <1>5, <1>9, <1>10 DEF PageInv

LEMMA DraftArrivesStep == ASSUME PageInv, DraftArrives PROVE PageInv'
<1>0. form.stage = "mapping" /\ UNCHANGED <<token, saves, record>> /\ form.account \in Accounts
  BY PageHas DEF DraftArrives, Page, FormInv
<1>1. CASE form' = [form EXCEPT !.stage = "failed"]
  BY <1>1, PageMovesStep
<1>2. CASE \E replies \in [{f \in FormFields : Kind[f] = "drafted"} -> Replies \union {Failure}] :
              form' = Shown([f \in FormFields |->
                                Suggestion(form.account, f,
                                   IF f \in DOMAIN replies THEN replies[f] ELSE Failure)])
  <2>1. PICK replies \in [{f \in FormFields : Kind[f] = "drafted"} -> Replies \union {Failure}] :
              form' = Shown([f \in FormFields |->
                                Suggestion(form.account, f,
                                   IF f \in DOMAIN replies THEN replies[f] ELSE Failure)])
    BY <1>2
  <2> DEFINE reply(f) == IF f \in DOMAIN replies THEN replies[f] ELSE Failure
             draft == [f \in FormFields |-> Suggestion(form.account, f, reply(f))]
  <2>2. \A f \in FormFields : reply(f) \in Replies \union {Failure}
    OBVIOUS
  <2>3. \A f \in FormFields : draft[f] = Suggestion(form.account, f, reply(f))
    OBVIOUS
  <2>4. form' = Shown(draft)
    BY <2>1
  <2> HIDE DEF reply, draft
  <2>5. QED
    BY <1>0, <2>2, <2>3, <2>4, SuggestionFact, ShownKeeps
<1>3. CASE form' = Shown([f \in FormFields |-> NoSuggestion])
  <2> DEFINE draft == [f \in FormFields |-> NoSuggestion]
  <2>1. \A f \in FormFields : draft[f].value = "unset" /\ Level(draft[f]) \in Levels
    BY DEF NoSuggestion, Level, Levels
  <2> HIDE DEF draft
  <2>2. QED
    BY <1>0, <1>3, <2>1, ShownKeeps DEF draft
<1>4. QED
  BY <1>1, <1>2, <1>3 DEF DraftArrives, Page

LEMMA UserStep ==
    ASSUME PageInv, NEW f \in FormFields, ConfirmField(f) \/ EditField(f)
    PROVE  PageInv'
<1>0. form.stage = "ready" /\ UNCHANGED <<token, saves, record>>
  BY DEF ConfirmField, EditField, Page
<1>1. /\ form.account \in Accounts /\ form.awaits = 0
      /\ form.value \in [FormFields -> AnswerTexts \union {"blank"}]
      /\ form.status \in [FormFields -> {"pending", "confirmed", "edited"}]
  BY <1>0, PageHas DEF FormInv, SaveInv, FormShape
<1>2. PICK value \in [FormFields -> AnswerTexts \union {"blank"}],
           status \in [FormFields -> {"pending", "confirmed", "edited"}] :
          /\ form' = [form EXCEPT !.value = value, !.status = status]
          /\ \A g \in FormFields : g # f => value[g] = form.value[g] /\ status[g] = form.status[g]
          /\ \/ value[f] = form.value[f] /\ status[f] = "confirmed" /\ form.status[f] = "pending"
                   /\ form.value[f] # "blank"
             \/ value[f] \in {"typed", "blank"} /\ status[f] = "edited"
  <2>1. CASE ConfirmField(f)
    <3> DEFINE status == [form.status EXCEPT ![f] = "confirmed"]
    <3>1. form' = [form EXCEPT !.value = form.value, !.status = status]
      BY <2>1, PageHas DEF ConfirmField, Page, FormShape
    <3>2. /\ status \in [FormFields -> {"pending", "confirmed", "edited"}] /\ status[f] = "confirmed"
          /\ \A g \in FormFields : g # f => status[g] = form.status[g]
      BY <1>1
    <3>3. form.status[f] = "pending" /\ form.value[f] # "blank"
      BY <2>1 DEF ConfirmField
    <3> HIDE DEF status
    <3>4. QED
      BY <1>1, <3>1, <3>2, <3>3
  <2>2. CASE EditField(f)
    <3>1. PICK v \in {"typed", "blank"} : Page([form EXCEPT !.value[f] = v, !.status[f] = "edited"])
      BY <2>2 DEF EditField
    <3> DEFINE value == [form.value EXCEPT ![f] = v]
               status == [form.status EXCEPT ![f] = "edited"]
    <3>2. form' = [form EXCEPT !.value = value, !.status = status]
      BY <3>1, PageHas DEF Page, FormShape
    <3>3. /\ value \in [FormFields -> AnswerTexts \union {"blank"}] /\ value[f] = v
          /\ \A g \in FormFields : g # f => value[g] = form.value[g]
      BY <1>1, <3>1, TextsFact
    <3>4. /\ status \in [FormFields -> {"pending", "confirmed", "edited"}] /\ status[f] = "edited"
          /\ \A g \in FormFields : g # f => status[g] = form.status[g]
      BY <1>1
    <3> HIDE DEF value, status
    <3>5. QED
      BY <3>1, <3>2, <3>3, <3>4
  <2>3. QED
    BY <2>1, <2>2
<1>3. /\ form' \in FormShape /\ form'.account = form.account /\ form'.value = value
      /\ form'.status = status /\ form'.level = form.level /\ form'.suggested = form.suggested
      /\ form'.stage = form.stage /\ form'.awaits = form.awaits
  BY <1>2, PageHas DEF FormShape
<1>4. FormTyping'
  BY <1>0, <1>3, PageHas DEF FormTyping
<1>5. FormInv'
  <2>1. SuggestedFor(form.account, form.suggested)'
    BY <1>3, PageHas DEF FormInv, SuggestedFor
  <2>2. SureOfFactsOnly'
    BY <1>3, PageHas DEF FormInv, SureOfFactsOnly
  <2>3. ASSUME NEW g \in FormFields
        PROVE  /\ status[g] = "edited" => value[g] \in {"typed", "blank"}
               /\ status[g] # "edited" =>
                     value[g] = IF form.suggested[g] = "unset" THEN "blank" ELSE form.suggested[g]
               /\ status[g] = "confirmed" => value[g] # "blank"
    <3>1. CASE g = f
      BY <1>2, <3>1, PageHas DEF FormInv
    <3>2. CASE g # f
      BY <1>2, <3>2, PageHas DEF FormInv
    <3>3. QED
      BY <3>1, <3>2
  <2>4. QED
    BY <1>0, <1>1, <1>3, <2>1, <2>2, <2>3 DEF FormInv
<1>6. SaveInv'
  BY <1>0, <1>1, <1>3, PageHas DEF SaveInv
<1>7. QED
  BY <1>4, <1>5, <1>6 DEF PageInv

LEMMA SaveRecordStep == ASSUME PageInv, SaveRecord PROVE PageInv'
<1> DEFINE entry == [account |-> form.account, form |-> Payload, answer |-> "none", seen |-> OnScreen]
           n == Len(saves) + 1
<1>0. /\ form.stage = "ready" /\ ConfirmedIds # {} /\ saves' = Append(saves, entry)
      /\ form' = [form EXCEPT !.stage = "saving", !.awaits = n] /\ UNCHANGED <<token, record>>
  BY DEF SaveRecord, OnScreen
<1>1. form.account \in Accounts
  BY <1>0, PageHas DEF FormInv
<1>2. /\ entry \in SaveShape /\ entry.account = form.account /\ entry.form = Payload
      /\ entry.answer = "none" /\ entry.seen = OnScreen
  BY <1>1, PayloadFact DEF SaveShape
<1>3. R!WellFormed(Payload) /\ Reviewed(form.account, entry)
  BY <1>0, <1>1, <1>2, PayloadFact DEF Reviewed
<1> HIDE DEF entry
<1>4. /\ saves' \in Seq(SaveShape) /\ Len(saves') = n /\ n \in Nat /\ n # 0 /\ DOMAIN saves' = 1..n
      /\ saves'[n] = entry
      /\ \A k \in DOMAIN saves : saves'[k] = saves[k]
      /\ \A k \in DOMAIN saves' : k = n \/ k \in DOMAIN saves
  BY <1>0, <1>2, PageHas
<1> HIDE DEF n
<1>5. /\ form' \in FormShape /\ form'.account = form.account /\ form'.value = form.value
      /\ form'.status = form.status /\ form'.level = form.level /\ form'.suggested = form.suggested
      /\ form'.stage = "saving" /\ form'.awaits = n
  BY <1>0, <1>4, PageHas DEF FormShape
<1>6. FormTyping'
  BY <1>0, <1>4, <1>5, PageHas DEF FormTyping
<1>7. FormInv'
  BY <1>0, <1>1, <1>5, PageHas DEF FormInv, SuggestedFor, SureOfFactsOnly
<1>8. OnScreen' = OnScreen
  BY <1>5 DEF OnScreen, Touched
<1>9. ASSUME NEW k \in DOMAIN saves'
      PROVE  /\ R!WellFormed(saves'[k].form) /\ Reviewed(saves'[k].account, saves'[k])
             /\ saves'[k].answer = "saved" =>
                   /\ record[saves'[k].account] # NoRecord
                   /\ record[saves'[k].account].seen = saves'[k].seen
  <2>1. CASE k = n
    BY <1>2, <1>3, <1>4, <2>1
  <2>2. CASE k \in DOMAIN saves
    BY <1>4, <2>2, PageHas DEF SaveInv
  <2>3. QED
    BY <1>4, <2>1, <2>2
<1>10. SaveInv'
  <2>1. n \in 0..Len(saves')
    BY <1>4
  <2>2. saves'[n].account = form.account /\ saves'[n].seen = OnScreen
    BY <1>2, <1>4
  <2>3. \A a \in Accounts : record[a] # NoRecord => Reviewed(a, record[a])
    BY PageHas DEF SaveInv
  <2>4. \A a, e : Reviewed(a, e)' = Reviewed(a, e)
    BY DEF Reviewed, SuggestedFor, R!SavedAnswers, R!Selected, R!Edited
  <2>5. \A q : R!WellFormed(q)' = R!WellFormed(q)
    BY DEF R!WellFormed, R!Suggested, R!Edited
  <2>6. QED
    BY <1>0, <1>5, <1>8, <1>9, <2>1, <2>2, <2>3, <2>4, <2>5 DEF SaveInv
<1>11. QED
  BY <1>6, <1>7, <1>10 DEF PageInv

LEMMA SaveArrivesStep == ASSUME PageInv, NEW k \in DOMAIN saves, SaveArrives(k) PROVE PageInv'
<1> DEFINE q == saves[k]
           accepted == record[q.account] = NoRecord /\ R!Confirmable(q.form)
           answer == IF accepted THEN "saved" ELSE "refused"
           entry == [form |-> q.form, seen |-> q.seen]
<1>0. /\ q.answer = "none" /\ saves' = [saves EXCEPT ![k].answer = answer]
      /\ record' = IF accepted THEN [record EXCEPT ![q.account] = entry] ELSE record
      /\ UNCHANGED <<token, form>>
  BY DEF SaveArrives
<1>1. q \in SaveShape /\ answer \in {"saved", "refused"} /\ q.account \in Accounts
  BY PageHas DEF SaveShape
<1>2. entry \in RecordShape /\ entry.form = q.form /\ entry.seen = q.seen /\ entry # NoRecord
  BY <1>1, TextsFact DEF RecordShape, SaveShape
<1>3. answer = "saved" <=> accepted
  OBVIOUS
<1> DEFINE after == [q EXCEPT !.answer = answer]
<1>4. after \in SaveShape /\ after.account = q.account /\ after.form = q.form /\ after.seen = q.seen
      /\ after.answer = answer
  BY <1>1 DEF SaveShape
<1>5. saves' = [saves EXCEPT ![k] = after]
  BY <1>0
<1>6. record' \in [Accounts -> RecordShape \union {NoRecord}]
  BY <1>0, <1>1, <1>2, PageHas
<1>7. /\ \A a \in Accounts : record[a] # NoRecord => record'[a] = record[a]
      /\ \A a \in Accounts : record'[a] # record[a] => a = q.account /\ record'[a] = entry
      /\ accepted => record'[q.account] = entry
  BY <1>0, <1>1, PageHas
<1> HIDE DEF after, answer, entry, accepted
<1>8. /\ saves' \in Seq(SaveShape) /\ Len(saves') = Len(saves) /\ DOMAIN saves' = DOMAIN saves
      /\ saves'[k] = after /\ \A j \in DOMAIN saves : j # k => saves'[j] = saves[j]
  BY <1>4, <1>5, PageHas
<1>9. FormTyping' /\ FormInv'
  BY <1>0, <1>6, <1>8, PageHas DEF FormTyping, FormInv, SuggestedFor, SureOfFactsOnly
<1>10. R!WellFormed(q.form) /\ Reviewed(q.account, q)
  BY PageHas DEF SaveInv
<1>11. Reviewed(q.account, entry) /\ Reviewed(q.account, after)
  BY <1>2, <1>4, <1>10 DEF Reviewed
<1>12. ASSUME NEW j \in DOMAIN saves'
       PROVE  /\ R!WellFormed(saves'[j].form) /\ Reviewed(saves'[j].account, saves'[j])
              /\ saves'[j].answer = "saved" =>
                    /\ record'[saves'[j].account] # NoRecord
                    /\ record'[saves'[j].account].seen = saves'[j].seen
  <2>1. CASE j = k
    BY <1>2, <1>3, <1>4, <1>7, <1>8, <1>10, <1>11, <2>1
  <2>2. CASE j # k
    <3>1. saves'[j] = saves[j] /\ j \in DOMAIN saves /\ saves[j].account \in Accounts
      BY <1>8, <2>2, PageHas DEF SaveShape
    <3>2. QED
      BY <1>7, <3>1, PageHas DEF SaveInv
  <2>3. QED
    BY <2>1, <2>2
<1>13. \A a \in Accounts : record'[a] # NoRecord => Reviewed(a, record'[a])
  BY <1>7, <1>11, PageHas DEF SaveInv
<1>14. SaveInv'
  <2>1. OnScreen' = OnScreen
    BY <1>0 DEF OnScreen, Touched
  <2>2. \A a, e : Reviewed(a, e)' = Reviewed(a, e)
    BY DEF Reviewed, SuggestedFor, R!SavedAnswers, R!Selected, R!Edited
  <2>3. \A x : R!WellFormed(x)' = R!WellFormed(x)
    BY DEF R!WellFormed, R!Suggested, R!Edited
  <2>4. form.awaits # 0 => /\ form.stage = "saving" /\ saves'[form.awaits].account = form.account
                           /\ saves'[form.awaits].seen = OnScreen
    BY <1>4, <1>8, PageHas DEF SaveInv
  <2>5. form.stage = "saved" => /\ form.account \in Accounts /\ record'[form.account] # NoRecord
                                /\ record'[form.account].seen = OnScreen
    BY <1>7, PageHas DEF SaveInv
  <2>6. form.awaits \in 0..Len(saves')
    BY <1>8, PageHas DEF SaveInv
  <2>7. QED
    BY <1>0, <1>12, <1>13, <2>1, <2>2, <2>3, <2>4, <2>5, <2>6 DEF SaveInv
<1>15. QED
  BY <1>9, <1>14 DEF PageInv

LEMMA PageStepInv == PageInv /\ [FormPageNext]_formVars => PageInv'
<1> SUFFICES ASSUME PageInv, [FormPageNext]_formVars
             PROVE  PageInv'
  OBVIOUS
\* Only the account of the token may have changed.
<1>0. ASSUME form' = form, saves' = saves, record' = record, token' \in Accounts \union {NoAccount}
      PROVE  PageInv'
  <2>1. FormTyping'
    BY <1>0, PageHas DEF FormTyping
  <2>2. FormInv'
    BY <1>0, PageHas DEF FormInv, SuggestedFor, SureOfFactsOnly
  <2>3. SaveInv'
    <3>1. \A a, e : Reviewed(a, e)' = Reviewed(a, e)
      BY DEF Reviewed, SuggestedFor, R!SavedAnswers, R!Selected, R!Edited
    <3>2. \A x : R!WellFormed(x)' = R!WellFormed(x)
      BY DEF R!WellFormed, R!Suggested, R!Edited
    <3>3. OnScreen' = OnScreen
      BY <1>0 DEF OnScreen, Touched
    <3>4. QED
      BY <1>0, <3>1, <3>2, <3>3, PageHas DEF SaveInv
  <2>4. QED
    BY <2>1, <2>2, <2>3 DEF PageInv
<1>1. CASE SwitchAccount
  BY <1>0, <1>1 DEF SwitchAccount
<1>2. CASE NoticeSwitch
  <2>1. token \in Accounts \union {NoAccount}
    BY PageHas
  <2>2. form' = LoadedFor(token) /\ UNCHANGED <<token, saves, record>>
    BY <1>2 DEF NoticeSwitch
  <2>3. QED
    BY <2>1, <2>2, LoadedKeeps
<1>3. CASE FormArrives \/ SaveAnswered \/ SaveTimesOut \/ AnswerDropped
  BY <1>3, PageMovesStep
<1>4. CASE DraftArrives
  BY <1>4, DraftArrivesStep
<1>5. CASE \E f \in FormFields : ConfirmField(f) \/ EditField(f)
  BY <1>5, UserStep
<1>6. CASE SaveRecord
  BY <1>6, SaveRecordStep
<1>7. CASE \E k \in DOMAIN saves : SaveArrives(k)
  BY <1>7, SaveArrivesStep
<1>8. CASE UNCHANGED formVars
  BY <1>0, <1>8, PageHas DEF formVars
<1>9. QED
  BY <1>1, <1>2, <1>3, <1>4, <1>5, <1>6, <1>7, <1>8 DEF FormPageNext

LEMMA PageFact ==
    PageInv => FormPageTypes /\ SavedIsShown /\ RecordIsReviewed /\ SureOfFactsOnly
<1> SUFFICES ASSUME PageInv
             PROVE  FormPageTypes /\ SavedIsShown /\ RecordIsReviewed /\ SureOfFactsOnly
  OBVIOUS
<1>1. FormPageTypes
  <2>1. /\ form.account \in Accounts \union {NoAccount}
        /\ form.stage \in {"loading", "mapping", "ready", "saving", "saved", "failed", "stopped"}
        /\ \A f \in FormFields :
              /\ form.value[f] \in AnswerTexts \union {"blank"}
              /\ form.suggested[f] \in AnswerTexts \union {"unset"}
              /\ form.status[f] \in {"pending", "confirmed", "edited"}
              /\ form.level[f] \in {"low", "medium", "high"}
    BY PageHas DEF FormShape, Levels
  <2>2. QED
    BY <2>1, PageHas DEF FormPageTypes, SaveInv
<1>2. SavedIsShown
  BY PageHas DEF SavedIsShown, SaveInv, OnScreen, Reviewed
<1>3. RecordIsReviewed
  BY PageHas DEF RecordIsReviewed, SaveInv, Reviewed, SuggestedFor
<1>4. QED
  BY <1>1, <1>2, <1>3, PageHas DEF FormInv

\* One step of RecordStays.
RecordKept == \A a \in Accounts : record[a] # NoRecord => record'[a] = record[a]

LEMMA RecordKeptStep == PageInv /\ [FormPageNext]_formVars => [RecordKept]_record
<1> SUFFICES ASSUME PageInv, FormPageNext
             PROVE  record' = record \/ RecordKept
  BY DEF formVars
<1>1. CASE \E k \in DOMAIN saves : SaveArrives(k)
  <2>1. PICK k \in DOMAIN saves : SaveArrives(k)
    BY <1>1
  <2> DEFINE entry == [form |-> saves[k].form, seen |-> saves[k].seen]
  <2>2. \/ record' = record
        \/ record[saves[k].account] = NoRecord
              /\ record' = [record EXCEPT ![saves[k].account] = entry]
    BY <2>1 DEF SaveArrives
  <2> HIDE DEF entry
  <2>3. QED
    BY <2>2, PageHas DEF RecordKept
<1>2. CASE FormPageNext /\ ~\E k \in DOMAIN saves : SaveArrives(k)
  BY <1>2 DEF FormPageNext, SwitchAccount, NoticeSwitch, FormArrives, DraftArrives, ConfirmField,
              EditField, SaveRecord, SaveAnswered, SaveTimesOut, AnswerDropped, Page
<1>3. QED
  BY <1>1, <1>2
-------------------------------------------------------------------------------
(* The page bridge *)

WorkerSteps == {"rest", "session", "platform", "frames", "scan", "review", "plain", "rich", "await",
                "report"}
ViewShape == [draft : Nat, frame : Nat, generation : Nat, click : Nat, at : Nat,
              stage : {"idle", "inspect", "fill"}]
OutcomeShape == [says : {"nothing", "report", "not sent", "perhaps"}, click : Nat,
                 filled : SUBSET Blanks]
AskShape == [kind : {"none", "inspect", "fill"}, click : Nat, draft : Nat, late : BOOLEAN,
             answer : {"none", "ok", "error", "unheard"}, items : SUBSET Blanks]
WorkerShape == [step : WorkerSteps, next : WorkerSteps \union {"none"}, seen : World,
                expected : World, checks : BOOLEAN, left : SUBSET Blanks, free : SUBSET Blanks,
                filled : SUBSET Blanks]
KeptShape == [seen : World, free : SUBSET Blanks]
ScriptShape == [click : Nat, document : Nat, items : SUBSET Blanks, late : BOOLEAN]

BridgeTyping ==
    /\ world \in World /\ frame \in [Blanks -> {"empty", "own", "sent"}]
    /\ view \in ViewShape /\ outcome \in OutcomeShape /\ message \in AskShape
    /\ worker \in WorkerShape /\ kept \in KeptShape /\ script \in ScriptShape
    /\ view.click \in Clicks \union {0} /\ script.click \in Clicks \union {0}
    /\ gaveUp \subseteq Clicks /\ put \subseteq Clicks \X Blanks

\* Nothing is of a click to come.
ClickInv ==
    /\ view.at <= view.generation
    /\ script # NoScript => script.click # 0
    /\ script.click <= view.click /\ outcome.click <= view.click
    /\ \A c \in gaveUp : c <= view.click
    /\ \A c \in Clicks, b \in Blanks : <<c, b>> \in put => c <= view.click

\* The message is the present click's, and the page waits for it or has given up.
MessageInv ==
    /\ message.kind = "none" => message = NoMessage
    /\ message.kind # "none" => message.click = view.click /\ view.click # 0
    /\ view.stage # "idle" => message.kind = view.stage /\ message.answer # "unheard"
    /\ view.stage = "idle" => message.kind = "none" \/ message.answer = "unheard"

\* Where the worker may be with the message, and what it may rely on there.
CheckedInv ==
    /\ worker.step = "rest" => worker = AtRest
    /\ worker.step # "rest" => message.kind # "none" /\ message.answer \in {"none", "unheard"}
    /\ worker.step # "rest" /\ message.kind = "inspect" =>
          /\ worker.step \in {"session", "platform", "frames", "scan", "review"}
          /\ worker.next \in {"scan", "review"}
    /\ worker.step # "rest" /\ message.kind = "fill" =>
          /\ worker.step \in {"session", "platform", "frames", "plain", "rich", "await", "report"}
          /\ worker.next \in {"plain", "rich", "report"} /\ worker.checks
    /\ worker.step # "rest" /\ worker.checks => worker.expected.details = message.draft
    /\ worker.step # "rest" /\ ~worker.checks => worker.next = "scan"
    /\ worker.step \in {"frames", "scan"} /\ ~worker.checks => worker.seen.details = message.draft
    /\ worker.step = "scan" => worker.seen.details = message.draft
    /\ worker.step \in {"review", "plain", "rich"} => worker.seen = worker.expected
    /\ worker.step = "review" => worker.checks
    /\ worker.step # "rest" => \A b \in worker.filled : <<message.click, b>> \in put

\* The review kept is of the draft that the message knows; what an answer names is put.
KeptInv ==
    /\ kept # NoKept /\ worker.step = "rest" /\ message.kind = "inspect" /\ message.answer = "ok" =>
          kept.seen.details = message.draft
    /\ kept # NoKept /\ worker.step = "rest" /\ message.kind = "fill"
             /\ message.answer \in {"none", "unheard"} =>
          kept.seen.details = message.draft
    /\ message.kind = "fill" /\ message.answer = "ok" =>
          \A b \in message.items : <<message.click, b>> \in put

NoneSent ==
    /\ message.kind # "fill" /\ script.click # view.click
    /\ \A b \in Blanks : <<view.click, b>> \notin put

\* Until the fill is asked for, the click has sent nothing.
SaidInv ==
    /\ view.stage = "inspect" => NoneSent
    /\ outcome.says = "not sent" => NoneSent /\ outcome.click = view.click
    /\ outcome.says = "not sent" /\ view.stage = "inspect" => ~ValidContext
    /\ ReportIsTrue

\* On a click that the page gave up, only late messages and scripts are left.
GaveUpInv ==
    /\ view.click \in gaveUp => view.stage = "idle" /\ (message.kind = "none" \/ message.late)
    /\ script.click \in gaveUp => script.late
    /\ message.kind # "none" /\ message.late /\ script # NoScript /\ script.click = message.click =>
          script.late

BridgeInv ==
    BridgeTyping /\ ClickInv /\ MessageInv /\ CheckedInv /\ KeptInv /\ SaidInv /\ GaveUpInv

LEMMA BridgeNulls ==
    /\ NoScript \in ScriptShape /\ NoScript.click = 0 /\ NoScript.late = FALSE
    /\ NoMessage \in AskShape /\ NoMessage.kind = "none" /\ NoMessage.answer = "none"
    /\ NoMessage.click = 0 /\ NoMessage.late = FALSE
    /\ AtRest \in WorkerShape /\ AtRest.step = "rest" /\ AtRest.filled = {}
    /\ AtRest.checks = FALSE
    /\ NoKept \in KeptShape /\ Start \in World /\ Start.details = 0
    /\ Clicks \subseteq Nat /\ 0 \notin Clicks
<1>1. Start \in World /\ Start.details = 0
  BY DEF Start, World
<1>2. NoScript \in ScriptShape /\ NoScript.click = 0 /\ NoScript.late = FALSE
  BY DEF NoScript, ScriptShape
<1>3. /\ NoMessage \in AskShape /\ NoMessage.kind = "none" /\ NoMessage.answer = "none"
      /\ NoMessage.click = 0 /\ NoMessage.late = FALSE
  BY DEF NoMessage, AskShape
<1>4. /\ AtRest \in WorkerShape /\ AtRest.step = "rest" /\ AtRest.filled = {}
      /\ AtRest.checks = FALSE
  BY <1>1 DEF AtRest, WorkerShape, WorkerSteps
<1>5. NoKept \in KeptShape
  BY <1>1 DEF NoKept, KeptShape
<1>6. Clicks \subseteq Nat /\ 0 \notin Clicks
  BY BridgeConstants DEF Clicks
<1>7. QED
  BY <1>1, <1>2, <1>3, <1>4, <1>5, <1>6

LEMMA BridgeInitInv == BridgeInit => BridgeInv
<1> SUFFICES ASSUME BridgeInit
             PROVE  BridgeInv
  OBVIOUS
<1>0. /\ world = Start /\ frame = Empty /\ message = NoMessage /\ worker = AtRest /\ kept = NoKept
      /\ script = NoScript /\ gaveUp = {} /\ put = {}
  BY DEF BridgeInit
<1>1. /\ view \in ViewShape /\ view.at = 0 /\ view.generation = 0 /\ view.click = 0
      /\ view.stage = "idle"
  BY DEF BridgeInit, ViewShape
<1>2. outcome \in OutcomeShape /\ outcome.says = "nothing" /\ outcome.click = 0
  BY DEF BridgeInit, OutcomeShape
<1>3. BridgeTyping
  <2>1. frame \in [Blanks -> {"empty", "own", "sent"}]
    BY <1>0 DEF Empty
  <2>2. QED
    BY <1>0, <1>1, <1>2, <2>1, BridgeNulls DEF BridgeTyping
<1>4. ClickInv
  BY <1>0, <1>1, <1>2, BridgeNulls DEF ClickInv
<1>5. MessageInv
  BY <1>0, <1>1, BridgeNulls DEF MessageInv
<1>6. CheckedInv
  BY <1>0, BridgeNulls DEF CheckedInv
<1>7. KeptInv
  BY <1>0, BridgeNulls DEF KeptInv
<1>8. SaidInv
  BY <1>1, <1>2 DEF SaidInv, ReportIsTrue
<1>9. GaveUpInv
  BY <1>0, BridgeNulls DEF GaveUpInv
<1>10. QED
  BY <1>3, <1>4, <1>5, <1>6, <1>7, <1>8, <1>9 DEF BridgeInv

\* A worker's step that says and writes nothing, and leaves the message or answers it.
LEMMA CalmKeeps ==
    ASSUME BridgeInv, UNCHANGED <<view, outcome, gaveUp, put>>, script' \in {script, NoScript},
           message'.kind # "none" => /\ message'.kind = message.kind /\ message'.click = message.click
                                     /\ message'.late = message.late
    PROVE  ClickInv' /\ SaidInv' /\ GaveUpInv'
<1>0. /\ BridgeTyping /\ ClickInv /\ SaidInv /\ GaveUpInv /\ MessageInv
      /\ view \in ViewShape /\ script \in ScriptShape
  BY DEF BridgeInv, BridgeTyping
<1>1. view.click \in Nat /\ script.click \in Nat /\ outcome.click \in Nat
  BY <1>0 DEF BridgeTyping, ViewShape, ScriptShape, OutcomeShape
<1>2. ClickInv'
  BY <1>0, <1>1, BridgeNulls DEF ClickInv
<1>3. NoneSent => NoneSent'
  <2>1. CASE script' = script
    BY <1>0, <2>1 DEF NoneSent
  <2>2. CASE script' = NoScript /\ script # NoScript
    <3>1. view.click # 0
      BY <1>0, <1>1, <2>2 DEF ClickInv
    <3>2. QED
      BY <1>0, <2>2, <3>1, BridgeNulls DEF NoneSent
  <2>3. QED
    BY <2>1, <2>2
<1>4. SaidInv'
  BY <1>0, <1>3 DEF SaidInv, ReportIsTrue, ValidContext
<1>5. script' # script => script' = NoScript /\ script'.click \notin gaveUp
  BY <1>0, BridgeNulls DEF BridgeTyping
<1>6. GaveUpInv'
  BY <1>0, <1>5, BridgeNulls DEF GaveUpInv
<1>7. QED
  BY <1>2, <1>4, <1>6

\* The worker goes on with the message.
LEMMA ProceedKeeps ==
    ASSUME BridgeInv, UNCHANGED <<view, outcome, gaveUp, put, message, world>>,
           script' \in {script, NoScript}, frame' \in [Blanks -> {"empty", "own", "sent"}],
           kept' \in KeptShape, worker' \in WorkerShape, worker'.step # "rest", CheckedInv'
    PROVE  BridgeInv'
<1>0. BridgeTyping /\ MessageInv /\ KeptInv
  BY DEF BridgeInv
<1>1. ClickInv' /\ SaidInv' /\ GaveUpInv'
  BY CalmKeeps
<1>2. BridgeTyping'
  BY <1>0, BridgeNulls DEF BridgeTyping
<1>3. MessageInv'
  BY <1>0 DEF MessageInv
<1>4. KeptInv'
  BY <1>0 DEF KeptInv
<1>5. QED
  BY <1>1, <1>2, <1>3, <1>4 DEF BridgeInv

LEMMA ReplyFact ==
    ASSUME message \in AskShape, NEW answer \in {"ok", "error"}, NEW items \in SUBSET Blanks,
           Reply(answer, items)
    PROVE  /\ message' \in AskShape /\ worker' = AtRest
           /\ message.answer = "unheard" => message' = NoMessage
           /\ message.answer # "unheard" =>
                 /\ message'.kind = message.kind /\ message'.click = message.click
                 /\ message'.draft = message.draft /\ message'.late = message.late
                 /\ message'.answer = answer /\ message'.items = items
  BY BridgeNulls DEF Reply, AskShape

\* The worker answers the message, or the page no longer listens.
LEMMA ReplyKeeps ==
    ASSUME BridgeInv, UNCHANGED <<view, outcome, gaveUp, put, world>>,
           script' \in {script, NoScript}, frame' \in [Blanks -> {"empty", "own", "sent"}],
           kept' \in KeptShape, message.kind # "none", message.answer \in {"none", "unheard"},
           NEW answer \in {"ok", "error"}, NEW items \in SUBSET Blanks, Reply(answer, items),
           answer = "ok" /\ message.kind = "inspect" => kept'.seen.details = message.draft,
           answer = "ok" /\ message.kind = "fill" => \A b \in items : <<message.click, b>> \in put
    PROVE  BridgeInv'
<1>0. /\ BridgeTyping /\ MessageInv /\ view \in ViewShape /\ message \in AskShape
      /\ message'.kind = "none" \/ (message'.kind = message.kind /\ message.answer # "unheard")
  BY ReplyFact, BridgeNulls DEF BridgeInv, BridgeTyping
<1>1. ClickInv' /\ SaidInv' /\ GaveUpInv'
  <2>1. message'.kind # "none" => /\ message'.kind = message.kind /\ message'.click = message.click
                                  /\ message'.late = message.late
    BY <1>0, ReplyFact, BridgeNulls
  <2>2. QED
    BY <2>1, CalmKeeps
<1>2. BridgeTyping'
  BY <1>0, ReplyFact, BridgeNulls DEF BridgeTyping
<1>3. MessageInv'
  <2>1. CASE message.answer = "unheard"
    BY <1>0, <2>1, ReplyFact, BridgeNulls DEF MessageInv, ViewShape
  <2>2. CASE message.answer # "unheard"
    BY <1>0, <2>2, ReplyFact, BridgeNulls DEF MessageInv, AskShape
  <2>3. QED
    BY <2>1, <2>2
<1>4. CheckedInv'
  BY <1>0, ReplyFact, BridgeNulls DEF CheckedInv
<1>5. KeptInv'
  <2>1. CASE message.answer = "unheard"
    BY <1>0, <2>1, ReplyFact, BridgeNulls DEF KeptInv
  <2>2. CASE message.answer # "unheard"
    BY <1>0, <2>2, ReplyFact, BridgeNulls DEF KeptInv
  <2>3. QED
    BY <2>1, <2>2
<1>6. QED
  BY <1>1, <1>2, <1>3, <1>4, <1>5 DEF BridgeInv

\* The worker stops with an error.
LEMMA StopKeeps ==
    ASSUME BridgeInv, UNCHANGED <<view, outcome, gaveUp, put, world>>,
           script' \in {script, NoScript}, frame' \in [Blanks -> {"empty", "own", "sent"}],
           kept' \in KeptShape, message.kind # "none", message.answer \in {"none", "unheard"}, Stop
    PROVE  BridgeInv'
<1>1. Reply("error", {})
  BY DEF Stop
<1>2. QED
  BY <1>1, ReplyKeeps

\* What the steps of the worker may use.
LEMMA BridgeHas ==
    ASSUME BridgeInv
    PROVE  /\ BridgeTyping /\ ClickInv /\ MessageInv /\ CheckedInv /\ KeptInv /\ SaidInv /\ GaveUpInv
           /\ world \in World /\ frame \in [Blanks -> {"empty", "own", "sent"}]
           /\ view \in ViewShape /\ outcome \in OutcomeShape /\ message \in AskShape
           /\ worker \in WorkerShape /\ kept \in KeptShape /\ script \in ScriptShape
           /\ worker # AtRest => /\ worker.step # "rest" /\ message.kind # "none"
                                 /\ message.answer \in {"none", "unheard"}
  BY DEF BridgeInv, BridgeTyping, CheckedInv

LEMMA ReceiveStep == ASSUME BridgeInv, Receive PROVE BridgeInv'
<1>0. /\ worker = AtRest /\ message # NoMessage /\ message.answer \in {"none", "unheard"}
      /\ UNCHANGED <<world, frame, view, outcome, script, changes, gaveUp, put>>
  BY DEF Receive
<1>1. message.kind \in {"inspect", "fill"} /\ message.kind # "none"
  BY <1>0, BridgeHas DEF MessageInv, AskShape
<1>2. CASE message.kind = "inspect"
  <2>1. /\ worker' = [AtRest EXCEPT !.step = "session", !.next = "scan"]
        /\ UNCHANGED <<message, kept>>
    BY <1>2 DEF Receive
  <2>2. /\ worker' \in WorkerShape /\ worker'.step = "session" /\ worker'.next = "scan"
        /\ worker'.checks = FALSE /\ worker'.filled = {}
    BY <2>1, BridgeNulls DEF WorkerShape, WorkerSteps
  <2>3. CheckedInv'
    BY <1>0, <1>2, <2>1, <2>2 DEF CheckedInv
  <2>4. QED
    BY <1>0, <2>1, <2>2, <2>3, BridgeHas, ProceedKeeps
<1>3. CASE message.kind = "fill" /\ kept = NoKept
  <2>1. Stop /\ UNCHANGED kept
    BY <1>3 DEF Receive
  <2>2. QED
    BY <1>0, <1>1, <2>1, BridgeHas, StopKeeps
<1>4. CASE message.kind = "fill" /\ kept # NoKept
  <2> DEFINE next == IF message.items \subseteq RichBlanks THEN "rich" ELSE "plain"
  <2>1. /\ worker' = [AtRest EXCEPT !.step = "session", !.expected = kept.seen, !.checks = TRUE,
                                    !.next = next, !.left = message.items]
        /\ kept' = NoKept /\ UNCHANGED message
    BY <1>4 DEF Receive, Spent
  <2>2. next \in {"plain", "rich"}
    OBVIOUS
  <2> HIDE DEF next
  <2>3. kept.seen \in World /\ message.items \in SUBSET Blanks
    BY BridgeHas DEF KeptShape, AskShape
  <2>4. /\ worker' \in WorkerShape /\ worker'.step = "session" /\ worker'.next \in {"plain", "rich"}
        /\ worker'.checks = TRUE /\ worker'.filled = {} /\ worker'.expected = kept.seen
    BY <2>1, <2>2, <2>3, BridgeNulls DEF WorkerShape, WorkerSteps
  <2>5. kept.seen.details = message.draft
    BY <1>0, <1>4, BridgeHas, BridgeNulls DEF KeptInv
  <2>6. CheckedInv'
    BY <1>0, <1>4, <2>1, <2>4, <2>5 DEF CheckedInv
  <2>7. QED
    BY <1>0, <2>1, <2>4, <2>6, BridgeHas, BridgeNulls, ProceedKeeps
<1>5. QED
  BY <1>1, <1>2, <1>3, <1>4

LEMMA ReadSessionStep == ASSUME BridgeInv, ReadSession PROVE BridgeInv'
<1>0. /\ worker.step = "session" /\ worker # AtRest
      /\ UNCHANGED <<world, frame, view, outcome, kept, script, changes, gaveUp, put>>
  BY DEF ReadSession, Working
<1>1. CASE Stop
  BY <1>0, <1>1, BridgeHas, StopKeeps
<1>2. CASE ~message.late
  <2> DEFINE seen == [Start EXCEPT !.link = world.link]
  <2>1. worker' = [worker EXCEPT !.step = "platform", !.seen = seen] /\ UNCHANGED message
    BY <1>2 DEF ReadSession, Proceed
  <2>2. seen \in World
    BY BridgeHas, BridgeNulls DEF World
  <2> HIDE DEF seen
  <2>3. /\ worker' \in WorkerShape /\ worker'.step = "platform" /\ worker'.next = worker.next
        /\ worker'.checks = worker.checks /\ worker'.filled = worker.filled
        /\ worker'.expected = worker.expected
    BY <2>1, <2>2, BridgeHas DEF WorkerShape, WorkerSteps
  <2>4. CheckedInv'
    BY <1>0, <2>1, <2>3, BridgeHas DEF CheckedInv
  <2>5. QED
    BY <1>0, <2>1, <2>3, <2>4, BridgeHas, ProceedKeeps
<1>3. QED
  BY <1>1, <1>2 DEF ReadSession

LEMMA VerifyPlatformStep == ASSUME BridgeInv, VerifyPlatform PROVE BridgeInv'
<1>0. /\ worker.step = "platform" /\ worker # AtRest
      /\ UNCHANGED <<world, frame, view, outcome, kept, script, changes, gaveUp, put>>
  BY DEF VerifyPlatform, Working
<1>1. CASE Stop
  BY <1>0, <1>1, BridgeHas, StopKeeps
<1>2. CASE worker.checks \/ message.draft = world.details
  <2> DEFINE seen == [worker.seen EXCEPT !.account = world.account, !.details = world.details]
  <2>1. worker' = [worker EXCEPT !.step = "frames", !.seen = seen] /\ UNCHANGED message
    BY <1>2, BridgeHas DEF VerifyPlatform, Proceed, WorkerShape
  <2>2. seen \in World /\ seen.details = world.details
    BY BridgeHas DEF World, WorkerShape
  <2> HIDE DEF seen
  <2>3. /\ worker' \in WorkerShape /\ worker'.step = "frames" /\ worker'.next = worker.next
        /\ worker'.checks = worker.checks /\ worker'.filled = worker.filled
        /\ worker'.expected = worker.expected /\ worker'.seen = seen
    BY <2>1, <2>2, BridgeHas DEF WorkerShape, WorkerSteps
  <2>4. ~worker.checks => worker'.seen.details = message.draft
    BY <1>2, <2>2, <2>3
  <2>5. CheckedInv'
    BY <1>0, <2>1, <2>3, <2>4, BridgeHas DEF CheckedInv
  <2>6. QED
    BY <1>0, <2>1, <2>3, <2>5, BridgeHas, ProceedKeeps
<1>3. QED
  BY <1>1, <1>2 DEF VerifyPlatform

LEMMA MatchFrameStep == ASSUME BridgeInv, MatchFrame PROVE BridgeInv'
<1> DEFINE seen == [worker.seen EXCEPT !.document = world.document]
<1>0. /\ worker.step = "frames" /\ worker # AtRest
      /\ UNCHANGED <<world, frame, view, outcome, kept, script, changes, gaveUp, put>>
  BY DEF MatchFrame, Working
<1>1. CASE Stop
  BY <1>0, <1>1, BridgeHas, StopKeeps
<1>2. CASE seen.link = world.link /\ AsExpected(seen) /\ ~message.late
  <2>1. worker' = [worker EXCEPT !.step = worker.next, !.seen = seen] /\ UNCHANGED message
    BY <1>2 DEF MatchFrame, Proceed
  <2>2. seen \in World /\ seen.details = worker.seen.details
    BY BridgeHas DEF World, WorkerShape
  <2>3. worker.checks => seen = worker.expected
    BY <1>2 DEF AsExpected
  <2> HIDE DEF seen
  <2>4. worker.next \in {"scan", "review", "plain", "rich", "report"}
    BY <1>0, BridgeHas DEF CheckedInv, AskShape
  <2>5. /\ worker' \in WorkerShape /\ worker'.step = worker.next /\ worker'.next = worker.next
        /\ worker'.checks = worker.checks /\ worker'.filled = worker.filled
        /\ worker'.expected = worker.expected /\ worker'.seen = seen
    BY <2>1, <2>2, <2>4, BridgeHas DEF WorkerShape, WorkerSteps
  <2>6. ~worker.checks => worker.next = "scan" /\ worker.seen.details = message.draft
    BY <1>0, BridgeHas DEF CheckedInv
  <2>7. worker.checks => worker.expected.details = message.draft
    BY <1>0, BridgeHas DEF CheckedInv
  <2>8. CheckedInv'
    BY <1>0, <2>1, <2>2, <2>3, <2>4, <2>5, <2>6, <2>7, BridgeHas DEF CheckedInv
  <2>9. QED
    BY <1>0, <2>1, <2>4, <2>5, <2>8, BridgeHas, ProceedKeeps
<1>3. QED
  BY <1>1, <1>2 DEF MatchFrame

LEMMA ScanStep == ASSUME BridgeInv, Scan PROVE BridgeInv'
<1>0. /\ worker.step = "scan" /\ worker # AtRest
      /\ UNCHANGED <<world, frame, view, outcome, kept, script, changes, gaveUp, put>>
  BY DEF Scan, Working
<1>1. CASE Stop
  BY <1>0, <1>1, BridgeHas, StopKeeps
<1>2. CASE world.document = worker.seen.document
  <2> DEFINE free == {b \in Blanks : frame[b] = "empty"}
  <2>1. /\ worker' = [worker EXCEPT !.step = "session", !.next = "review", !.checks = TRUE,
                                    !.expected = worker.seen, !.free = free]
        /\ UNCHANGED message
    BY <1>2 DEF Scan, Proceed
  <2>2. free \in SUBSET Blanks
    OBVIOUS
  <2> HIDE DEF free
  <2>3. /\ worker' \in WorkerShape /\ worker'.step = "session" /\ worker'.next = "review"
        /\ worker'.checks = TRUE /\ worker'.filled = worker.filled
        /\ worker'.expected = worker.seen
    BY <2>1, <2>2, BridgeHas DEF WorkerShape, WorkerSteps
  <2>4. message.kind = "inspect" /\ worker.seen.details = message.draft
    BY <1>0, BridgeHas DEF CheckedInv, AskShape
  <2>5. CheckedInv'
    BY <1>0, <2>1, <2>3, <2>4, BridgeHas DEF CheckedInv
  <2>6. QED
    BY <1>0, <2>1, <2>3, <2>5, BridgeHas, ProceedKeeps
<1>3. QED
  BY <1>1, <1>2 DEF Scan

LEMMA KeepInspectedStep == ASSUME BridgeInv, KeepInspected PROVE BridgeInv'
<1>0. /\ worker.step = "review" /\ worker # AtRest /\ Reply("ok", worker.free)
      /\ kept' = [seen |-> worker.seen, free |-> worker.free]
      /\ UNCHANGED <<world, frame, view, outcome, script, changes, gaveUp, put>>
  BY DEF KeepInspected, Working
<1>1. kept' \in KeptShape /\ kept'.seen = worker.seen /\ worker.free \in SUBSET Blanks
  BY <1>0, BridgeHas DEF KeptShape, WorkerShape
<1>2. message.kind = "inspect" /\ worker.seen.details = message.draft
  BY <1>0, BridgeHas DEF CheckedInv, AskShape
<1>3. QED
  BY <1>0, <1>1, <1>2, BridgeHas, ReplyKeeps

LEMMA ReportFilledStep == ASSUME BridgeInv, ReportFilled PROVE BridgeInv'
<1>0. /\ worker.step = "report" /\ worker # AtRest /\ Reply("ok", worker.filled)
      /\ UNCHANGED <<world, frame, view, outcome, kept, script, changes, gaveUp, put>>
  BY DEF ReportFilled, Working
<1>1. worker.filled \in SUBSET Blanks
  BY BridgeHas DEF WorkerShape
<1>2. message.kind = "fill" /\ \A b \in worker.filled : <<message.click, b>> \in put
  BY <1>0, BridgeHas DEF CheckedInv, AskShape
<1>3. QED
  BY <1>0, <1>1, <1>2, BridgeHas, ReplyKeeps

LEMMA SendScriptStep == ASSUME BridgeInv, SendScript PROVE BridgeInv'
<1> DEFINE items == IF worker.step = "plain" THEN worker.left \ RichBlanks
                    ELSE worker.left \intersect RichBlanks
<1>0. /\ worker.step \in {"plain", "rich"} /\ script = NoScript
      /\ script' = [click |-> message.click, document |-> worker.expected.document, items |-> items,
                    late |-> message.late]
      /\ worker' = [worker EXCEPT !.step = "await", !.left = @ \ items]
      /\ UNCHANGED <<world, frame, view, outcome, message, kept, changes, gaveUp, put>>
  BY DEF SendScript
<1>1. items \in SUBSET Blanks
  BY BridgeHas DEF WorkerShape
<1> HIDE DEF items
<1>2. worker # AtRest /\ message.kind = "fill"
  BY <1>0, BridgeHas, BridgeNulls DEF CheckedInv, AskShape
<1>3. /\ script' \in ScriptShape /\ script'.click = message.click /\ script'.late = message.late
      /\ message.click = view.click /\ view.click # 0 /\ view.click \in Nat
  BY <1>0, <1>1, <1>2, BridgeHas DEF ScriptShape, AskShape, WorkerShape, World, MessageInv, ViewShape
<1>4. /\ worker' \in WorkerShape /\ worker'.step = "await" /\ worker'.next = worker.next
      /\ worker'.checks = worker.checks /\ worker'.filled = worker.filled
      /\ worker'.expected = worker.expected
  BY <1>0, <1>1, BridgeHas DEF WorkerShape, WorkerSteps
<1>5. BridgeTyping'
  BY <1>0, <1>3, <1>4, BridgeHas DEF BridgeTyping
<1>6. ClickInv'
  BY <1>0, <1>3, BridgeHas DEF ClickInv
<1>7. MessageInv'
  BY <1>0, BridgeHas DEF MessageInv
<1>8. CheckedInv'
  BY <1>0, <1>2, <1>4, BridgeHas DEF CheckedInv
<1>9. KeptInv'
  BY <1>0, <1>2, <1>4, BridgeHas DEF KeptInv, CheckedInv
<1>10. SaidInv'
  <2>1. view.stage # "inspect" /\ outcome.says # "not sent"
    BY <1>2, BridgeHas DEF SaidInv, NoneSent, MessageInv
  <2>2. QED
    BY <1>0, <2>1, BridgeHas DEF SaidInv, ReportIsTrue
<1>11. GaveUpInv'
  BY <1>0, <1>2, <1>3, BridgeHas DEF GaveUpInv
<1>12. QED
  BY <1>5, <1>6, <1>7, <1>8, <1>9, <1>10, <1>11 DEF BridgeInv

\* What a script writes is its click's.
LEMMA PutFact ==
    ASSUME BridgeInv, NEW now \in SUBSET script.items, script # NoScript,
           put' = put \union {<<script.click, b>> : b \in now},
           frame' = [b \in Blanks |-> IF b \in now THEN "sent" ELSE frame[b]]
    PROVE  /\ put' \subseteq Clicks \X Blanks /\ put \subseteq put'
           /\ \A b \in now : <<script.click, b>> \in put'
           /\ \A c \in Clicks \union {0}, b \in Blanks : <<c, b>> \in put' /\ <<c, b>> \notin put =>
                 c = script.click /\ b \in now
           /\ frame' \in [Blanks -> {"empty", "own", "sent"}]
<1>1. script.click \in Clicks /\ script.items \subseteq Blanks /\ put \subseteq Clicks \X Blanks
  BY BridgeHas DEF BridgeTyping, ClickInv, ScriptShape
<1>2. QED
  BY <1>1, BridgeHas

LEMMA RunScriptStep == ASSUME BridgeInv, RunScript PROVE BridgeInv'
<1> DEFINE free == {b \in script.items : frame[b] = "empty"}
<1>0. /\ script # NoScript /\ script' = NoScript
      /\ UNCHANGED <<world, view, outcome, kept, changes, gaveUp>>
  BY DEF RunScript
<1>1. PICK now \in (IF ScriptExpired THEN {{}} ELSE {free}) :
              /\ frame' = [b \in Blanks |-> IF b \in now THEN "sent" ELSE frame[b]]
              /\ put' = put \union {<<script.click, b>> : b \in now}
              /\ IF ~Awaited THEN UNCHANGED <<worker, message>>
                 ELSE IF ScriptExpired THEN Stop
                 ELSE Proceed([worker EXCEPT !.filled = @ \union now, !.step = "session",
                                  !.next = IF worker.left = {} THEN "report" ELSE "rich"])
  BY DEF RunScript
<1>2. now \in SUBSET script.items
  BY <1>1
<1> HIDE DEF free
<1>3. /\ put' \subseteq Clicks \X Blanks /\ put \subseteq put'
      /\ \A b \in now : <<script.click, b>> \in put'
      /\ \A c \in Clicks \union {0}, b \in Blanks : <<c, b>> \in put' /\ <<c, b>> \notin put =>
            c = script.click /\ b \in now
      /\ frame' \in [Blanks -> {"empty", "own", "sent"}]
  BY <1>0, <1>1, <1>2, PutFact
<1>4. CASE Awaited /\ ScriptExpired
  <2>1. now = {} /\ Stop
    BY <1>1, <1>4
  <2>2. put' = put
    BY <1>1, <2>1
  <2>3. worker # AtRest
    BY <1>4, BridgeNulls DEF Awaited, Working
  <2>4. QED
    BY <1>0, <1>3, <2>1, <2>2, <2>3, BridgeHas, StopKeeps
<1>5. CASE ~(Awaited /\ ScriptExpired)
  <2>1. UNCHANGED message
    BY <1>1, <1>5 DEF Proceed
  <2>2. ClickInv'
    <3>1. view.click \in Nat /\ script.click <= view.click
      BY BridgeHas DEF ViewShape, ClickInv
    <3>2. \A c \in Clicks, b \in Blanks : <<c, b>> \in put' => c <= view.click
      BY <1>3, <3>1, BridgeHas DEF ClickInv
    <3>3. 0 <= view.click
      BY <3>1
    <3>4. QED
      BY <1>0, <3>2, <3>3, BridgeHas, BridgeNulls DEF ClickInv
  <2>3. MessageInv'
    BY <1>0, <2>1, BridgeHas DEF MessageInv
  <2>4. SaidInv'
    <3>1. NoneSent => NoneSent'
      <4>1. view.click \in Clicks \union {0}
        BY BridgeHas DEF BridgeTyping
      <4>2. view.click # 0
        BY <1>0, BridgeHas DEF ClickInv, ViewShape, ScriptShape
      <4>3. ASSUME NoneSent
            PROVE  \A b \in Blanks : <<view.click, b>> \notin put'
        BY <1>3, <4>1, <4>3 DEF NoneSent
      <4>4. QED
        BY <1>0, <2>1, <4>2, <4>3, BridgeNulls DEF NoneSent
    <3>2. QED
      BY <1>0, <1>3, <3>1, BridgeHas DEF SaidInv, ReportIsTrue, ValidContext
  <2>5. GaveUpInv'
    <3>1. 0 \notin gaveUp
      BY BridgeHas, BridgeNulls DEF BridgeTyping
    <3>2. QED
      BY <1>0, <2>1, <3>1, BridgeHas, BridgeNulls DEF GaveUpInv
  <2>6. KeptInv' /\ CheckedInv' /\ worker' \in WorkerShape
    <3>1. CASE ~Awaited
      <4>1. UNCHANGED worker
        BY <1>1, <3>1
      <4>2. CheckedInv'
        BY <1>3, <2>1, <4>1, BridgeHas DEF CheckedInv
      <4>3. KeptInv'
        BY <1>0, <1>3, <2>1, <4>1, BridgeHas DEF KeptInv
      <4>4. QED
        BY <4>1, <4>2, <4>3, BridgeHas
    <3>2. CASE Awaited
      <4> DEFINE next == IF worker.left = {} THEN "report" ELSE "rich"
                 filled == worker.filled \union now
      <4>1. worker.step = "await" /\ worker # AtRest /\ message.click = script.click
        BY <3>2 DEF Awaited, Working
      <4>2. worker' = [worker EXCEPT !.filled = filled, !.step = "session", !.next = next]
        BY <1>1, <1>5, <3>2, BridgeHas DEF Proceed, WorkerShape
      <4>3. next \in {"report", "rich"} /\ filled \in SUBSET Blanks
        BY <1>2, BridgeHas DEF WorkerShape, ScriptShape
      <4>4. \A b \in filled : <<message.click, b>> \in put'
        BY <1>3, <4>1, BridgeHas DEF CheckedInv
      <4> HIDE DEF next, filled
      <4>5. /\ worker' \in WorkerShape /\ worker'.step = "session" /\ worker'.next = next
            /\ worker'.checks = worker.checks /\ worker'.filled = filled
            /\ worker'.expected = worker.expected
        BY <4>2, <4>3, BridgeHas DEF WorkerShape, WorkerSteps
      <4>6. message.kind = "fill"
        BY <4>1, BridgeHas DEF CheckedInv, AskShape
      <4>7. CheckedInv'
        BY <2>1, <4>1, <4>3, <4>4, <4>5, <4>6, BridgeHas DEF CheckedInv
      <4>8. KeptInv'
        BY <1>0, <1>3, <2>1, <4>5, <4>6, BridgeHas DEF KeptInv
      <4>9. QED
        BY <4>5, <4>7, <4>8
    <3>3. QED
      BY <3>1, <3>2
  <2>7. BridgeTyping'
    BY <1>0, <1>3, <2>1, <2>6, BridgeHas, BridgeNulls DEF BridgeTyping
  <2>8. QED
    BY <2>2, <2>3, <2>4, <2>5, <2>6, <2>7 DEF BridgeInv
<1>6. QED
  BY <1>4, <1>5

LEMMA LoseScriptStep == ASSUME BridgeInv, LoseScript PROVE BridgeInv'
<1>0. /\ script # NoScript /\ script' = NoScript
      /\ UNCHANGED <<world, frame, view, outcome, kept, changes, gaveUp, put>>
  BY DEF LoseScript
<1>1. CASE Awaited
  <2>1. worker # AtRest /\ Stop
    BY <1>1 DEF Awaited, Working, LoseScript
  <2>2. QED
    BY <1>0, <2>1, BridgeHas, StopKeeps
<1>2. CASE ~Awaited
  <2>1. UNCHANGED <<worker, message>>
    BY <1>2 DEF LoseScript
  <2>2. ClickInv' /\ SaidInv' /\ GaveUpInv'
    BY <1>0, <2>1, CalmKeeps
  <2>3. BridgeTyping'
    BY <1>0, <2>1, BridgeHas, BridgeNulls DEF BridgeTyping
  <2>4. MessageInv' /\ CheckedInv' /\ KeptInv'
    BY <1>0, <2>1, BridgeHas DEF MessageInv, CheckedInv, KeptInv
  <2>5. QED
    BY <2>2, <2>3, <2>4 DEF BridgeInv
<1>3. QED
  BY <1>1, <1>2

LEMMA WorkerStepInv == ASSUME BridgeInv, WorkerStep PROVE BridgeInv'
  BY ReceiveStep, ReadSessionStep, VerifyPlatformStep, MatchFrameStep, ScanStep, KeepInspectedStep,
     SendScriptStep, RunScriptStep, LoseScriptStep, ReportFilledStep DEF WorkerStep

\* The form, the account or a review changes: only what is kept may go.
LEMMA AroundKeeps ==
    ASSUME BridgeInv, UNCHANGED <<view, outcome, message, worker, script, gaveUp, put>>,
           world' \in World, frame' \in [Blanks -> {"empty", "own", "sent"}], kept' \in {kept, NoKept}
    PROVE  BridgeInv'
<1>1. ClickInv' /\ SaidInv' /\ GaveUpInv'
  BY CalmKeeps
<1>2. BridgeTyping'
  BY BridgeHas, BridgeNulls DEF BridgeTyping
<1>3. MessageInv' /\ CheckedInv'
  BY BridgeHas DEF MessageInv, CheckedInv
<1>4. KeptInv'
  BY BridgeHas DEF KeptInv
<1>5. QED
  BY <1>1, <1>2, <1>3, <1>4 DEF BridgeInv

LEMMA ChangesAroundStep ==
    ASSUME BridgeInv, ChangeWorld \/ Navigate \/ \E b \in Blanks : AnswerByHand(b)
    PROVE  BridgeInv'
<1>1. CASE ChangeWorld
  <2>1. PICK what \in {"account", "link", "details"} : world' = [world EXCEPT ![what] = @ + 1]
    BY <1>1 DEF ChangeWorld
  <2>2. world' \in World
    BY <2>1, BridgeHas DEF World
  <2>3. /\ kept' \in {kept, NoKept}
        /\ UNCHANGED <<frame, view, outcome, message, worker, script, gaveUp, put>>
    BY <1>1 DEF ChangeWorld
  <2>4. QED
    BY <2>2, <2>3, BridgeHas, AroundKeeps
<1>2. CASE Navigate
  <2>1. world' = [world EXCEPT !.document = @ + 1] /\ frame' = Empty
    BY <1>2 DEF Navigate
  <2>2. world' \in World /\ frame' \in [Blanks -> {"empty", "own", "sent"}]
    BY <2>1, BridgeHas DEF World, Empty
  <2>3. UNCHANGED <<view, outcome, message, worker, kept, script, gaveUp, put>>
    BY <1>2 DEF Navigate
  <2>4. QED
    BY <2>2, <2>3, BridgeHas, AroundKeeps
<1>3. CASE \E b \in Blanks : AnswerByHand(b)
  <2>1. /\ frame' \in [Blanks -> {"empty", "own", "sent"}]
        /\ UNCHANGED <<world, view, outcome, message, worker, kept, script, gaveUp, put>>
    BY <1>3, BridgeHas DEF AnswerByHand
  <2>2. QED
    BY <2>1, BridgeHas, AroundKeeps
<1>4. QED
  BY <1>1, <1>2, <1>3

LEMMA WorkerKilledStep == ASSUME BridgeInv, WorkerKilled PROVE BridgeInv'
<1>0. /\ kept' = NoKept /\ worker' = AtRest
      /\ UNCHANGED <<world, frame, view, outcome, script, gaveUp, put>>
  BY DEF WorkerKilled
<1>1. CASE worker = AtRest
  <2>1. UNCHANGED <<message, worker>>
    BY <1>0, <1>1 DEF WorkerKilled
  <2>2. QED
    BY <1>0, <2>1, BridgeHas, AroundKeeps
<1>2. CASE worker # AtRest
  <2>1. CASE message.answer = "unheard"
    <3>1. message' = NoMessage
      BY <1>2, <2>1 DEF WorkerKilled
    <3>2. ClickInv' /\ SaidInv' /\ GaveUpInv'
      BY <1>0, <3>1, BridgeNulls, CalmKeeps
    <3>3. BridgeTyping'
      BY <1>0, <3>1, BridgeHas, BridgeNulls DEF BridgeTyping
    <3>4. MessageInv' /\ CheckedInv' /\ KeptInv'
      BY <1>0, <2>1, <3>1, BridgeHas, BridgeNulls DEF MessageInv, CheckedInv, KeptInv
    <3>5. QED
      BY <3>2, <3>3, <3>4 DEF BridgeInv
  <2>2. CASE message.answer # "unheard"
    <3>1. message' = [message EXCEPT !.answer = "error"]
      BY <1>2, <2>2 DEF WorkerKilled
    <3>2. /\ message' \in AskShape /\ message'.kind = message.kind /\ message'.click = message.click
          /\ message'.late = message.late /\ message'.answer = "error"
      BY <3>1, BridgeHas DEF AskShape
    <3>3. ClickInv' /\ SaidInv' /\ GaveUpInv'
      BY <1>0, <3>2, CalmKeeps
    <3>4. BridgeTyping'
      BY <1>0, <3>2, BridgeHas, BridgeNulls DEF BridgeTyping
    <3>5. MessageInv'
      BY <1>0, <1>2, <2>2, <3>2, BridgeHas DEF MessageInv
    <3>6. CheckedInv' /\ KeptInv'
      BY <1>0, <3>2, BridgeHas, BridgeNulls DEF CheckedInv, KeptInv
    <3>7. QED
      BY <3>3, <3>4, <3>5, <3>6 DEF BridgeInv
  <2>3. QED
    BY <2>1, <2>2
<1>3. QED
  BY <1>1, <1>2

LEMMA DeadlinePassesStep == ASSUME BridgeInv, DeadlinePasses PROVE BridgeInv'
<1>0. /\ message' = IF message = NoMessage THEN message ELSE [message EXCEPT !.late = TRUE]
      /\ script' = IF message.click \in {0, script.click} THEN [script EXCEPT !.late = TRUE] ELSE script
      /\ message # NoMessage \/ script # NoScript
      /\ UNCHANGED <<world, frame, view, outcome, worker, kept, gaveUp, put>>
  BY DEF DeadlinePasses
<1>1. /\ message' \in AskShape /\ message'.kind = message.kind /\ message'.click = message.click
      /\ message'.draft = message.draft /\ message'.answer = message.answer
      /\ message'.items = message.items
      /\ IF message = NoMessage THEN message' = message ELSE message'.late = TRUE
  BY <1>0, BridgeHas DEF AskShape
<1>2. /\ script' \in ScriptShape /\ script'.click = script.click
      /\ script.late => script'.late
      /\ message.click \in {0, script.click} => script'.late = TRUE
  BY <1>0, BridgeHas DEF ScriptShape
<1>3. BridgeTyping'
  BY <1>0, <1>1, <1>2, BridgeHas DEF BridgeTyping
<1>4. script' # NoScript => script'.click # 0 \/ script = NoScript
  BY <1>0, <1>2, BridgeHas DEF ClickInv
<1>5. script = NoScript => script' = NoScript
  <2>1. SUFFICES ASSUME script = NoScript
                 PROVE  message.click \notin {0, script.click}
    BY <1>0
  <2>2. message # NoMessage
    BY <1>0, <2>1
  <2>3. message.click # 0
    BY <2>2, BridgeHas DEF MessageInv, AskShape
  <2>4. QED
    BY <2>1, <2>3, BridgeNulls
<1>6. ClickInv'
  BY <1>0, <1>2, <1>4, <1>5, BridgeHas DEF ClickInv
<1>7. MessageInv'
  BY <1>0, <1>1, BridgeHas, BridgeNulls DEF MessageInv
<1>8. CheckedInv' /\ KeptInv'
  BY <1>0, <1>1, BridgeHas DEF CheckedInv, KeptInv
<1>9. SaidInv'
  BY <1>0, <1>1, <1>2, BridgeHas DEF SaidInv, NoneSent, ReportIsTrue, ValidContext
<1>10. GaveUpInv'
  BY <1>0, <1>1, <1>2, <1>5, BridgeHas, BridgeNulls DEF GaveUpInv, MessageInv
<1>11. QED
  BY <1>3, <1>6, <1>7, <1>8, <1>9, <1>10 DEF BridgeInv

LEMMA FrameChangedStep == ASSUME BridgeInv, FrameChanged PROVE BridgeInv'
<1> DEFINE next == view.generation + 1
<1>0. UNCHANGED <<world, frame, message, worker, kept, script, changes, gaveUp, put>>
  BY DEF FrameChanged
<1>1. view' = [view EXCEPT !.frame = world.document, !.generation = next]
  BY BridgeHas DEF FrameChanged, ViewShape
<1>2. world.document \in Nat /\ next \in Nat /\ view.at < next /\ view.at <= next
  BY BridgeHas DEF World, ViewShape, ClickInv
<1> HIDE DEF next
<1>3. /\ view' \in ViewShape /\ view'.draft = view.draft /\ view'.click = view.click
      /\ view'.at = view.at /\ view'.stage = view.stage /\ view'.generation = next
  BY <1>1, <1>2, BridgeHas DEF ViewShape
<1>4. /\ outcome' \in OutcomeShape /\ outcome'.says \in {"nothing", "not sent", "perhaps"}
      /\ (outcome'.click = 0 \/ outcome'.click = view.click)
      /\ outcome'.says = "not sent" => view.stage = "inspect" /\ outcome'.click = view.click
  <2>1. view.click \in Nat
    BY BridgeHas DEF ViewShape
  <2>2. CASE view.stage = "idle"
    <3>1. Says("nothing", 0, {})
      BY <2>2 DEF FrameChanged
    <3>2. QED
      BY <3>1 DEF Says, OutcomeShape
  <2>3. CASE view.stage = "fill"
    <3>1. Says("perhaps", view.click, {})
      BY <2>3 DEF FrameChanged
    <3>2. QED
      BY <2>1, <3>1 DEF Says, OutcomeShape
  <2>4. CASE view.stage = "inspect"
    <3>1. Says("not sent", view.click, {})
      BY <2>4 DEF FrameChanged
    <3>2. QED
      BY <2>1, <2>4, <3>1 DEF Says, OutcomeShape
  <2>5. QED
    BY <2>2, <2>3, <2>4, BridgeHas DEF ViewShape
<1>5. BridgeTyping'
  BY <1>0, <1>3, <1>4, BridgeHas DEF BridgeTyping
<1>6. ClickInv'
  <2>1. view.click \in Nat
    BY BridgeHas DEF ViewShape
  <2>2. 0 <= view.click /\ view.click <= view.click
    BY <2>1
  <2>3. outcome'.click = 0 \/ outcome'.click = view.click
    BY <1>4
  <2>4. outcome'.click <= view.click
    BY <2>2, <2>3
  <2>5. QED
    BY <1>0, <1>2, <1>3, <2>4, BridgeHas DEF ClickInv
<1>7. MessageInv' /\ CheckedInv' /\ KeptInv' /\ GaveUpInv'
  BY <1>0, <1>3, BridgeHas DEF MessageInv, CheckedInv, KeptInv, GaveUpInv
<1>8. SaidInv'
  <2>1. view'.generation # view'.at
    BY <1>2, <1>3, BridgeHas DEF ViewShape
  <2>2. QED
    BY <1>0, <1>3, <1>4, <2>1, BridgeHas DEF SaidInv, NoneSent, ReportIsTrue, ValidContext
<1>9. QED
  BY <1>5, <1>6, <1>7, <1>8 DEF BridgeInv

LEMMA ReloadDraftStep == ASSUME BridgeInv, ReloadDraft PROVE BridgeInv'
<1> DEFINE next == view.generation + 1
<1>0. /\ view.stage = "idle" /\ Says("nothing", 0, {})
      /\ UNCHANGED <<world, frame, message, worker, kept, script, changes, gaveUp, put>>
  BY DEF ReloadDraft
<1>1. view' = [view EXCEPT !.draft = world.details, !.generation = next]
  BY BridgeHas DEF ReloadDraft, ViewShape
<1>2. world.details \in Nat /\ next \in Nat /\ view.at <= next
  BY BridgeHas DEF World, ViewShape, ClickInv
<1> HIDE DEF next
<1>3. /\ view' \in ViewShape /\ view'.click = view.click
      /\ view'.at = view.at /\ view'.stage = view.stage /\ view'.generation = next
  BY <1>1, <1>2, BridgeHas DEF ViewShape
<1>4. outcome' \in OutcomeShape /\ outcome'.says = "nothing" /\ outcome'.click = 0
  BY <1>0 DEF Says, OutcomeShape
<1>5. BridgeTyping'
  BY <1>0, <1>3, <1>4, BridgeHas DEF BridgeTyping
<1>6. ClickInv'
  <2>1. view.click \in Nat
    BY BridgeHas DEF ViewShape
  <2>2. QED
    BY <1>0, <1>2, <1>3, <1>4, <2>1, BridgeHas DEF ClickInv
<1>7. MessageInv' /\ CheckedInv' /\ KeptInv' /\ GaveUpInv'
  BY <1>0, <1>3, BridgeHas DEF MessageInv, CheckedInv, KeptInv, GaveUpInv
<1>8. SaidInv'
  BY <1>0, <1>3, <1>4, BridgeHas DEF SaidInv, ReportIsTrue
<1>9. QED
  BY <1>5, <1>6, <1>7, <1>8 DEF BridgeInv

LEMMA ClickStep == ASSUME BridgeInv, Click PROVE BridgeInv'
<1> DEFINE click == view.click + 1
           next == view.generation + 1
<1>0. /\ message = NoMessage /\ click \in Clicks /\ Says("nothing", 0, {})
      /\ UNCHANGED <<world, frame, worker, kept, script, changes, gaveUp, put>>
  BY DEF Click
<1>1. /\ view' = [view EXCEPT !.click = click, !.generation = next, !.at = next, !.stage = "inspect"]
      /\ message' = [NoMessage EXCEPT !.kind = "inspect", !.click = click, !.draft = view.draft]
  BY BridgeHas DEF Click, ViewShape
<1>2. click \in Nat /\ next \in Nat /\ view.click < click /\ view.click \in Nat /\ view.draft \in Nat
  BY BridgeHas DEF ViewShape
<1> HIDE DEF click, next
<1>3. /\ view' \in ViewShape /\ view'.click = click /\ view'.at = next /\ view'.generation = next
      /\ view'.stage = "inspect"
  BY <1>1, <1>2, BridgeHas DEF ViewShape
<1>4. /\ message' \in AskShape /\ message'.kind = "inspect" /\ message'.click = click
      /\ message'.answer = "none" /\ message'.late = FALSE
  BY <1>1, <1>2, BridgeNulls DEF AskShape
<1>5. outcome' \in OutcomeShape /\ outcome'.says = "nothing" /\ outcome'.click = 0
  BY <1>0 DEF Says, OutcomeShape
<1>6. BridgeTyping'
  BY <1>0, <1>3, <1>4, <1>5, BridgeHas DEF BridgeTyping
<1>7. \A k \in Nat : k <= view.click => k <= click /\ k # click
  BY <1>2
<1>8. script.click \in Nat /\ gaveUp \subseteq Nat /\ Clicks \subseteq Nat
  BY BridgeHas, BridgeNulls DEF ScriptShape, BridgeTyping
<1>9. ClickInv'
  BY <1>0, <1>2, <1>3, <1>5, <1>7, <1>8, BridgeHas DEF ClickInv
<1>10. MessageInv'
  BY <1>2, <1>3, <1>4, BridgeHas DEF MessageInv
<1>11. CheckedInv' /\ KeptInv'
  BY <1>0, <1>4, BridgeHas, BridgeNulls DEF CheckedInv, KeptInv
<1>12. SaidInv'
  <2>1. NoneSent'
    BY <1>0, <1>3, <1>4, <1>7, <1>8, BridgeHas DEF NoneSent, ClickInv
  <2>2. QED
    BY <1>5, <2>1 DEF SaidInv, ReportIsTrue
<1>13. GaveUpInv'
  <2>1. click \notin gaveUp
    BY <1>7, <1>8, BridgeHas DEF ClickInv
  <2>2. QED
    BY <1>0, <1>3, <1>4, <2>1, BridgeHas DEF GaveUpInv
<1>14. QED
  BY <1>6, <1>9, <1>10, <1>11, <1>12, <1>13 DEF BridgeInv

\* The page has heard the end of the click's messages.
LEMMA ClickEnds ==
    ASSUME BridgeInv, view' = [view EXCEPT !.stage = "idle"], message' = NoMessage,
           UNCHANGED <<world, frame, worker, kept, script, changes, gaveUp, put>>,
           worker.step = "rest", outcome' \in OutcomeShape, outcome'.click <= view.click,
           outcome'.says = "not sent" =>
              outcome' = outcome \/ (view.stage = "inspect" /\ outcome'.click = view.click),
           ReportIsTrue'
    PROVE  BridgeInv'
<1>1. /\ view' \in ViewShape /\ view'.click = view.click /\ view'.at = view.at
      /\ view'.generation = view.generation /\ view'.stage = "idle"
  BY BridgeHas DEF ViewShape
<1>2. BridgeTyping'
  BY <1>1, BridgeHas, BridgeNulls DEF BridgeTyping
<1>3. ClickInv'
  BY <1>1, BridgeHas DEF ClickInv
<1>4. MessageInv' /\ CheckedInv' /\ KeptInv'
  BY <1>1, BridgeHas, BridgeNulls DEF MessageInv, CheckedInv, KeptInv
<1>5. SaidInv'
  <2>1. NoneSent => NoneSent'
    BY <1>1, BridgeHas, BridgeNulls DEF NoneSent, AskShape, ViewShape, ScriptShape
  <2>2. QED
    BY <1>1, <2>1, BridgeHas DEF SaidInv
<1>6. GaveUpInv'
  BY <1>1, BridgeHas, BridgeNulls DEF GaveUpInv
<1>7. QED
  BY <1>2, <1>3, <1>4, <1>5, <1>6 DEF BridgeInv

LEMMA ApproveStep == ASSUME BridgeInv, Approve PROVE BridgeInv'
<1>0. /\ view.stage = "inspect" /\ message.kind = "inspect" /\ message.answer = "ok"
      /\ message.click = view.click
      /\ UNCHANGED <<world, frame, worker, kept, script, changes, gaveUp, put>>
  BY DEF Approve
<1>1. /\ worker = AtRest /\ worker.step = "rest" /\ view.click # 0 /\ view.click \in Nat
      /\ message.draft \in Nat /\ message.items \in SUBSET Blanks
  BY <1>0, BridgeHas, BridgeNulls DEF CheckedInv, MessageInv, ViewShape, AskShape
<1>2. CASE ValidContext /\ message.items # {}
  <2>1. /\ view' = [view EXCEPT !.stage = "fill"] /\ UNCHANGED outcome
        /\ message' = [NoMessage EXCEPT !.kind = "fill", !.click = view.click,
                                        !.draft = message.draft, !.items = message.items]
    BY <1>2 DEF Approve
  <2>2. /\ view' \in ViewShape /\ view'.click = view.click /\ view'.at = view.at
        /\ view'.generation = view.generation /\ view'.stage = "fill"
    BY <2>1, BridgeHas DEF ViewShape
  <2>3. /\ message' \in AskShape /\ message'.kind = "fill" /\ message'.click = view.click
        /\ message'.draft = message.draft /\ message'.answer = "none" /\ message'.late = FALSE
    BY <1>1, <2>1, BridgeNulls DEF AskShape
  <2>4. BridgeTyping'
    BY <1>0, <2>1, <2>2, <2>3, BridgeHas DEF BridgeTyping
  <2>5. ClickInv'
    BY <1>0, <2>1, <2>2, BridgeHas DEF ClickInv
  <2>6. MessageInv'
    BY <1>1, <2>2, <2>3 DEF MessageInv
  <2>7. CheckedInv' /\ KeptInv'
    <3>1. kept # NoKept => kept.seen.details = message.draft
      BY <1>0, <1>1, BridgeHas DEF KeptInv
    <3>2. QED
      BY <1>0, <1>1, <2>3, <3>1, BridgeNulls DEF CheckedInv, KeptInv
  <2>8. SaidInv'
    <3>1. outcome.says # "not sent"
      BY <1>0, <1>2, BridgeHas DEF SaidInv
    <3>2. QED
      BY <1>0, <2>1, <2>2, <3>1, BridgeHas DEF SaidInv, ReportIsTrue
  <2>9. GaveUpInv'
    BY <1>0, <2>2, <2>3, BridgeHas DEF GaveUpInv
  <2>10. QED
    BY <2>4, <2>5, <2>6, <2>7, <2>8, <2>9 DEF BridgeInv
<1>3. CASE ~(ValidContext /\ message.items # {})
  <2>1. view' = [view EXCEPT !.stage = "idle"] /\ message' = NoMessage
    BY <1>3 DEF Approve
  <2>2. /\ outcome' \in OutcomeShape /\ outcome'.click <= view.click
        /\ outcome'.says = "not sent" => outcome' = outcome
        /\ ReportIsTrue'
    <3>1. CASE ValidContext
      <4>1. Says("report", view.click, {})
        BY <1>3, <3>1 DEF Approve
      <4>2. /\ outcome' \in OutcomeShape /\ outcome'.click = view.click /\ outcome'.says = "report"
            /\ outcome'.filled = {}
        BY <1>1, <4>1 DEF Says, OutcomeShape
      <4>3. view.click <= view.click
        BY <1>1
      <4>4. ReportIsTrue'
        BY <4>2 DEF ReportIsTrue
      <4>5. QED
        BY <4>2, <4>3, <4>4
    <3>2. CASE ~ValidContext
      <4>1. UNCHANGED outcome
        BY <1>3, <3>2 DEF Approve
      <4>2. QED
        BY <1>0, <4>1, BridgeHas DEF SaidInv, ReportIsTrue, ClickInv
    <3>3. QED
      BY <3>1, <3>2
  <2>3. QED
    BY <1>0, <1>1, <2>1, <2>2, ClickEnds
<1>4. QED
  BY <1>2, <1>3

LEMMA HearStep == ASSUME BridgeInv, Hear PROVE BridgeInv'
<1>0. /\ view.stage # "idle" /\ message.click = view.click
      /\ message.answer = "error" \/ (message.kind = "fill" /\ message.answer = "ok")
      /\ view' = [view EXCEPT !.stage = "idle"] /\ message' = NoMessage
      /\ UNCHANGED <<world, frame, worker, kept, script, changes, gaveUp, put>>
  BY DEF Hear
<1>1. /\ worker.step = "rest" /\ message.kind = view.stage /\ view.click \in Nat
      /\ message.items \in SUBSET Blanks /\ view.click <= view.click
  BY <1>0, BridgeHas DEF CheckedInv, MessageInv, ViewShape, AskShape
<1>2. /\ outcome' \in OutcomeShape /\ outcome'.click <= view.click
      /\ outcome'.says = "not sent" =>
            outcome' = outcome \/ (view.stage = "inspect" /\ outcome'.click = view.click)
      /\ ReportIsTrue'
  <2>1. CASE ~ValidContext
    <3>1. UNCHANGED outcome
      BY <2>1 DEF Hear
    <3>2. QED
      BY <1>0, <3>1, BridgeHas DEF SaidInv, ReportIsTrue, ClickInv
  <2>2. CASE ValidContext /\ message.answer = "ok"
    <3>1. Says("report", view.click, message.items)
      BY <2>2 DEF Hear
    <3>2. /\ outcome' \in OutcomeShape /\ outcome'.click = view.click /\ outcome'.says = "report"
          /\ outcome'.filled = message.items
      BY <1>1, <3>1 DEF Says, OutcomeShape
    <3>3. \A b \in message.items : <<view.click, b>> \in put
      BY <1>0, <2>2, BridgeHas DEF KeptInv
    <3>4. ReportIsTrue'
      BY <1>0, <3>2, <3>3 DEF ReportIsTrue
    <3>5. QED
      BY <1>1, <3>2, <3>4
  <2>3. CASE ValidContext /\ message.answer # "ok" /\ view.stage = "fill"
    <3>1. Says("perhaps", view.click, {})
      BY <2>3 DEF Hear, OnError
    <3>2. outcome' \in OutcomeShape /\ outcome'.click = view.click /\ outcome'.says = "perhaps"
      BY <1>1, <3>1 DEF Says, OutcomeShape
    <3>3. ReportIsTrue'
      BY <3>2 DEF ReportIsTrue
    <3>4. QED
      BY <1>1, <3>2, <3>3
  <2>4. CASE ValidContext /\ message.answer # "ok" /\ view.stage = "inspect"
    <3>1. Says("not sent", view.click, {})
      BY <2>4 DEF Hear, OnError
    <3>2. outcome' \in OutcomeShape /\ outcome'.click = view.click /\ outcome'.says = "not sent"
      BY <1>1, <3>1 DEF Says, OutcomeShape
    <3>3. ReportIsTrue'
      BY <3>2 DEF ReportIsTrue
    <3>4. QED
      BY <1>1, <2>4, <3>2, <3>3
  <2>5. QED
    BY <1>0, <2>1, <2>2, <2>3, <2>4, BridgeHas DEF ViewShape
<1>3. QED
  BY <1>0, <1>1, <1>2, ClickEnds

LEMMA StopWaitingStep == ASSUME BridgeInv, StopWaiting PROVE BridgeInv'
<1>0. /\ view.stage # "idle" /\ message.late /\ message.answer = "none"
      /\ view' = [view EXCEPT !.stage = "idle"]
      /\ message' = [message EXCEPT !.answer = "unheard"] /\ gaveUp' = gaveUp \union {view.click}
      /\ UNCHANGED <<world, frame, worker, kept, script, changes, put>>
  BY DEF StopWaiting
<1>1. /\ message.kind = view.stage /\ message.kind # "none" /\ message.click = view.click
      /\ view.click # 0 /\ view.click \in Clicks /\ view.click \in Nat /\ view.click <= view.click
  BY <1>0, BridgeHas DEF MessageInv, ViewShape, BridgeTyping
<1>2. /\ view' \in ViewShape /\ view'.click = view.click /\ view'.at = view.at
      /\ view'.generation = view.generation /\ view'.stage = "idle"
  BY <1>0, BridgeHas DEF ViewShape
<1>3. /\ message' \in AskShape /\ message'.kind = message.kind /\ message'.click = message.click
      /\ message'.draft = message.draft /\ message'.late = message.late
      /\ message'.answer = "unheard" /\ message'.items = message.items
  BY <1>0, BridgeHas DEF AskShape
<1>4. /\ outcome' \in OutcomeShape /\ outcome'.click <= view.click
      /\ outcome'.says = "not sent" =>
            outcome' = outcome \/ (view.stage = "inspect" /\ outcome'.click = view.click)
      /\ ReportIsTrue'
  <2>1. CASE ~ValidContext
    <3>1. UNCHANGED outcome
      BY <2>1 DEF StopWaiting
    <3>2. QED
      BY <1>0, <3>1, BridgeHas DEF SaidInv, ReportIsTrue, ClickInv
  <2>2. CASE ValidContext /\ view.stage = "fill"
    <3>1. Says("perhaps", view.click, {})
      BY <2>2 DEF StopWaiting, OnError
    <3>2. outcome' \in OutcomeShape /\ outcome'.click = view.click /\ outcome'.says = "perhaps"
      BY <1>1, <3>1 DEF Says, OutcomeShape
    <3>3. ReportIsTrue'
      BY <3>2 DEF ReportIsTrue
    <3>4. QED
      BY <1>1, <3>2, <3>3
  <2>3. CASE ValidContext /\ view.stage = "inspect"
    <3>1. Says("not sent", view.click, {})
      BY <2>3 DEF StopWaiting, OnError
    <3>2. outcome' \in OutcomeShape /\ outcome'.click = view.click /\ outcome'.says = "not sent"
      BY <1>1, <3>1 DEF Says, OutcomeShape
    <3>3. ReportIsTrue'
      BY <3>2 DEF ReportIsTrue
    <3>4. QED
      BY <1>1, <2>3, <3>2, <3>3
  <2>4. QED
    BY <1>0, <2>1, <2>2, <2>3, BridgeHas DEF ViewShape
<1>5. BridgeTyping'
  BY <1>0, <1>1, <1>2, <1>3, <1>4, BridgeHas DEF BridgeTyping
<1>6. ClickInv'
  BY <1>0, <1>1, <1>2, <1>4, BridgeHas DEF ClickInv
<1>7. MessageInv'
  BY <1>1, <1>2, <1>3 DEF MessageInv
<1>8. CheckedInv' /\ KeptInv'
  BY <1>0, <1>3, BridgeHas DEF CheckedInv, KeptInv
<1>9. SaidInv'
  <2>1. NoneSent => NoneSent'
    BY <1>0, <1>2, <1>3 DEF NoneSent
  <2>2. QED
    BY <1>2, <1>4, <2>1, BridgeHas DEF SaidInv
<1>10. GaveUpInv'
  <2>1. script.click = view.click => script # NoScript
    BY <1>1, BridgeNulls
  <2>2. script'.click \in gaveUp' => script'.late
    BY <1>0, <1>1, <2>1, BridgeHas DEF GaveUpInv
  <2>3. QED
    BY <1>0, <1>2, <1>3, <2>2, BridgeHas DEF GaveUpInv
<1>11. QED
  BY <1>5, <1>6, <1>7, <1>8, <1>9, <1>10 DEF BridgeInv

LEMMA BridgeStepInv == BridgeInv /\ [BridgeNext]_bridgeVars => BridgeInv'
<1> SUFFICES ASSUME BridgeInv, [BridgeNext]_bridgeVars
             PROVE  BridgeInv'
  OBVIOUS
<1>1. CASE UNCHANGED bridgeVars
  BY <1>1, BridgeHas, AroundKeeps DEF bridgeVars
<1>2. CASE BridgeNext
  BY <1>2, ChangesAroundStep, WorkerKilledStep, DeadlinePassesStep, FrameChangedStep, ReloadDraftStep,
     ClickStep, ApproveStep, HearStep, StopWaitingStep, WorkerStepInv DEF BridgeNext, PageStep
<1>3. QED
  BY <1>1, <1>2

LEMMA BridgeFact == BridgeInv => BridgeTypes /\ NotSentIsTrue /\ ReportIsTrue
<1> SUFFICES ASSUME BridgeInv
             PROVE  BridgeTypes /\ NotSentIsTrue /\ ReportIsTrue
  OBVIOUS
<1>1. view.stage \in {"idle", "inspect", "fill"}
  BY BridgeHas DEF ViewShape
<1>2. outcome.says \in {"nothing", "report", "not sent", "perhaps"}
  BY BridgeHas DEF OutcomeShape
<1>3. message.items \union worker.left \union worker.filled \union script.items \subseteq Blanks
  BY BridgeHas DEF AskShape, WorkerShape, ScriptShape
<1>4. BridgeTypes
  BY <1>1, <1>2, <1>3, BridgeHas DEF BridgeTypes, BridgeTyping
<1>5. NotSentIsTrue /\ ReportIsTrue
  BY BridgeHas DEF NotSentIsTrue, SaidInv, NoneSent
<1>6. QED
  BY <1>4, <1>5

\* Only a script writes, only what is free, and nothing past its deadline.
LEMMA ScriptsWrite ==
    ASSUME BridgeInv, BridgeNext, ~RunScript
    PROVE  put' = put /\ \A b \in Blanks : (frame[b] = "own" /\ world'.document = world.document)
                                               => frame'[b] = "own"
<1>1. CASE Navigate
  <2> DEFINE d == world.document + 1
  <2>1. world' = [world EXCEPT !.document = d] /\ put' = put
    BY <1>1, BridgeHas DEF Navigate, World
  <2>2. d \in Nat /\ d # world.document
    BY BridgeHas DEF World
  <2> HIDE DEF d
  <2>3. world'.document # world.document
    BY <2>1, <2>2, BridgeHas DEF World
  <2>4. QED
    BY <2>1, <2>3
<1>2. CASE \E b \in Blanks : AnswerByHand(b)
  BY <1>2, BridgeHas DEF AnswerByHand
<1>3. CASE ChangeWorld \/ WorkerKilled \/ DeadlinePasses \/ FrameChanged \/ ReloadDraft \/ Click
  BY <1>3 DEF ChangeWorld, WorkerKilled, DeadlinePasses, FrameChanged, ReloadDraft, Click
<1>4. CASE PageStep
  BY <1>4 DEF PageStep, Approve, Hear, StopWaiting
<1>5. CASE WorkerStep
  <2>1. UNCHANGED <<put, frame>>
    BY <1>5 DEF WorkerStep, Receive, ReadSession, VerifyPlatform, MatchFrame, Scan, KeepInspected,
                SendScript, LoseScript, ReportFilled
  <2>2. QED
    BY <2>1
<1>6. QED
  BY <1>1, <1>2, <1>3, <1>4, <1>5 DEF BridgeNext

\* One step of NothingAfterWaiting and of FormIsRespected.
NothingMore == \A b \in Blanks, c \in gaveUp : <<c, b>> \in put' => <<c, b>> \in put
FormStays ==
    /\ \A b \in Blanks : (frame[b] = "own" /\ world'.document = world.document) => frame'[b] = "own"
    /\ (script = NoScript /\ script' # NoScript) =>
           worker.seen = worker.expected /\ message.draft = worker.expected.details

LEMMA NothingMoreStep == BridgeInv /\ [BridgeNext]_bridgeVars => [NothingMore]_bridgeVars
<1> SUFFICES ASSUME BridgeInv, BridgeNext
             PROVE  NothingMore
  OBVIOUS
<1>1. CASE ~RunScript
  BY <1>1, ScriptsWrite DEF NothingMore
<1>2. CASE RunScript
  <2> DEFINE free == {b \in script.items : frame[b] = "empty"}
  <2>1. PICK now \in (IF ScriptExpired THEN {{}} ELSE {free}) :
                /\ frame' = [b \in Blanks |-> IF b \in now THEN "sent" ELSE frame[b]]
                /\ put' = put \union {<<script.click, b>> : b \in now}
    BY <1>2 DEF RunScript
  <2>2. script # NoScript /\ now \in SUBSET script.items
    BY <1>2, <2>1 DEF RunScript
  <2>3. script.click \in gaveUp => now = {}
    BY <2>1, BridgeHas DEF GaveUpInv, ScriptExpired
  <2> HIDE DEF free
  <2>4. \A c \in Clicks \union {0}, b \in Blanks : <<c, b>> \in put' /\ <<c, b>> \notin put =>
            c = script.click /\ b \in now
    BY <2>1, <2>2, PutFact
  <2>5. gaveUp \subseteq Clicks
    BY BridgeHas DEF BridgeTyping
  <2>6. QED
    BY <2>3, <2>4, <2>5 DEF NothingMore
<1>3. QED
  BY <1>1, <1>2

LEMMA FormStaysStep == BridgeInv /\ [BridgeNext]_bridgeVars => [FormStays]_bridgeVars
<1> SUFFICES ASSUME BridgeInv, BridgeNext
             PROVE  FormStays
  OBVIOUS
<1>1. ASSUME NEW b \in Blanks, frame[b] = "own", world'.document = world.document
      PROVE  frame'[b] = "own"
  <2>1. CASE ~RunScript
    BY <1>1, <2>1, ScriptsWrite
  <2>2. CASE RunScript
    <3> DEFINE free == {c \in script.items : frame[c] = "empty"}
    <3>1. PICK now \in (IF ScriptExpired THEN {{}} ELSE {free}) :
                  frame' = [c \in Blanks |-> IF c \in now THEN "sent" ELSE frame[c]]
      BY <2>2 DEF RunScript
    <3>2. b \notin now
      BY <1>1, <3>1
    <3> HIDE DEF free
    <3>3. QED
      BY <1>1, <3>1, <3>2
  <2>3. QED
    BY <2>1, <2>2
<1>2. ASSUME script = NoScript, script' # NoScript
      PROVE  worker.seen = worker.expected /\ message.draft = worker.expected.details
  <2>1. CASE SendScript
    <3>1. worker.step \in {"plain", "rich"}
      BY <2>1 DEF SendScript
    <3>2. worker.step # "rest" /\ message.kind = "fill"
      BY <3>1, BridgeHas DEF CheckedInv, AskShape
    <3>3. QED
      BY <3>1, <3>2, BridgeHas DEF CheckedInv
  <2>2. CASE DeadlinePasses
    <3>1. message # NoMessage /\ message.click \in {0, NoScript.click}
      BY <1>2, <2>2 DEF DeadlinePasses
    <3>2. message.click # 0
      BY <3>1, BridgeHas DEF MessageInv, AskShape
    <3>3. QED
      BY <3>1, <3>2, BridgeNulls
  <2>3. ~SendScript /\ ~DeadlinePasses => script' \in {script, NoScript}
    BY DEF BridgeNext, ChangeWorld, Navigate, WorkerKilled, AnswerByHand, FrameChanged, ReloadDraft,
           Click, PageStep, Approve, Hear, StopWaiting, WorkerStep, Receive, ReadSession,
           VerifyPlatform, MatchFrame, Scan, KeepInspected, RunScript, LoseScript, ReportFilled
  <2>4. QED
    BY <1>2, <2>1, <2>2, <2>3
<1>3. QED
  BY <1>1, <1>2 DEF FormStays
-------------------------------------------------------------------------------
(* The popup *)

DocumentShape == [document : Nat, url : {"form", "other"}, value : [Questions -> Texts \union {"own"}],
              key : [Questions -> {0, 1}]]
ReviewShape == [id : Nat, by : Nat, saved : Nat, document : Nat, key : [Questions -> {0, 1}]]
EditorShape == [text : Texts, edited : BOOLEAN, blocked : BOOLEAN, from : Nat]
EditorsShape == [of : Nat, at : [Questions -> EditorShape]]
JobShape == [status : {"none", "preparing", "settled"}, stage : {"over", "request", "reload", "bind"},
             cancelled : BOOLEAN, awaited : BOOLEAN, by : Nat, saved : Nat, document : Nat,
             fields : SUBSET Questions, answers : SUBSET Questions]
OpShape == [kind : {"none", "load", "fill", "other"},
            stage : {"none", "inspect", "wait", "profile", "bind", "page", "writing", "report", "between"},
            by : Nat, review : ReviewShape, pending : BOOLEAN,
            approved : UNION {[S -> Texts] : S \in SUBSET Questions},
            left : SUBSET Questions, opened : SUBSET Questions, filled : SUBSET Questions,
            result : {"none", "first", "report", "rejected", "lost"}]

PopupTyping ==
    /\ tool \in {"ats", "internsg"}
    /\ session \in Nat \ {0} /\ saved \in Nat /\ turns \in Nat
    /\ session <= turns + 1 /\ saved <= turns /\ turns <= MaxTurns
    /\ page \in DocumentShape /\ review \in ReviewShape /\ editors \in EditorsShape
    /\ job \in [Previews -> JobShape] /\ op \in OpShape
    /\ told \in {"idle", "waiting", "filling", "complete", "rejected", "uncertain", "not sent"}
    /\ wrote \subseteq Questions /\ sent \in [Questions -> Nat]

\* A preview is of the connection and its answers are its own; while another is
\* loaded there is none.
ReviewInv ==
    /\ review # NoReview => review.id \in Previews /\ review.by = session /\ editors.of = review.id
    /\ editors.of = 0 => editors = NoEditors
    /\ AnswersOfThisPreview
    /\ op.kind = "load" => review = NoReview /\ sent = NeverSent
    /\ op.kind = "load" /\ op.stage \in {"profile", "bind"} =>
          op.review.id \in Previews /\ op.review.by = op.by
    /\ op.kind = "load" /\ op.stage = "inspect" => NextPreview \in Previews

\* A job that may still write is the shown preview's, and a fill that waits for it
\* is the only operation it writes beside.
JobInv ==
    /\ \A r \in Previews :
          /\ job[r].stage # "over" => job[r].status = "preparing"
          /\ job[r].answers \subseteq job[r].fields
          /\ op.kind = "fill" /\ op.stage # "wait" => ~Valid(r)
          /\ Valid(r) /\ job[r].awaited => op.kind = "fill" /\ op.stage = "wait" /\ op.pending

\* What a fill has written, and what it still has to.
FillInv ==
    /\ op.kind = "fill" =>
          /\ op.review.id \in Previews /\ op.review.by = op.by
          /\ review \in {NoReview, op.review} /\ editors.of \in {0, op.review.id}
          /\ told \notin {"rejected", "not sent"}
          /\ op.stage \notin {"none", "inspect"}
          /\ op.stage \in {"wait", "profile", "bind"} => wrote = {} /\ op.filled = {}
          /\ op.stage = "page" /\ tool = "ats" => wrote = {}
          /\ op.result = "rejected" => op.stage = "report" /\ wrote = {}
          /\ op.result = "first" \/ op.stage = "between" => tool = "internsg"
          /\ op.stage \in {"page", "writing"} => op.left \subseteq DOMAIN op.approved
    /\ op.opened \subseteq op.left \intersect Dropdowns
    /\ op.opened # {} => op.kind = "fill" /\ op.stage \in {"writing", "report"} /\ tool = "ats"
    /\ ToldTruly

\* What is shown is what was approved: at the click, but for what the awaited job adds;
\* after the merge, exactly; once sent, apart from what is blocked or empty.
ShownInv ==
    op.kind = "fill" =>
        /\ op.stage = "wait" /\ review = op.review =>
              /\ \A q \in DOMAIN op.approved : q \in Sendable /\ editors.at[q].text = op.approved[q]
              /\ \A q \in Sendable \ DOMAIN op.approved :
                    op.pending /\ q \in job[op.review.id].fields /\ ~editors.at[q].edited
              /\ Valid(op.review.id) => op.pending
        /\ op.stage \in {"profile", "bind"} /\ review = op.review =>
              /\ DOMAIN op.approved = Sendable
              /\ \A q \in Sendable : editors.at[q].text = op.approved[q]
        /\ op.stage \in {"page", "writing", "report", "between"} /\ editors.of = op.review.id =>
              /\ \A q \in DOMAIN op.approved : editors.at[q].text = op.approved[q]
              /\ \A q \in Questions : editors.at[q].blocked \/ editors.at[q].text = "empty"
                                          \/ q \in DOMAIN op.approved

SentInv ==
    \A q \in Questions :
        sent[q] <= 1 /\ (review # NoReview /\ ~editors.at[q].blocked => sent[q] = 0)

PopupInv == PopupTyping /\ ReviewInv /\ JobInv /\ FillInv /\ ShownInv /\ SentInv

LEMMA PopupNulls ==
    /\ NoReview \in ReviewShape /\ NoEditors \in EditorsShape /\ NoJob \in JobShape /\ NoOp \in OpShape
    /\ NoReview.id = 0 /\ NoEditors.of = 0 /\ \A q \in Questions : NoEditors.at[q].from = 0
    /\ 0 \notin Previews /\ Previews \subseteq Nat
<1>1. NoReview \in ReviewShape /\ NoReview.id = 0
  BY DEF NoReview, ReviewShape
<1>2. Editor("empty", 0) \in EditorShape /\ Editor("empty", 0).from = 0
  BY DEF Editor, EditorShape, Texts
<1>3. NoEditors \in EditorsShape /\ NoEditors.of = 0 /\ \A q \in Questions : NoEditors.at[q].from = 0
  BY <1>2 DEF NoEditors, EditorsShape
<1>4. NoJob \in JobShape
  BY DEF NoJob, JobShape
<1>5. [q \in {} |-> "empty"] \in UNION {[S -> Texts] : S \in SUBSET Questions}
  <2>1. [q \in {} |-> "empty"] \in [{} -> Texts]
    BY DEF Texts
  <2>2. {} \in SUBSET Questions
    OBVIOUS
  <2>3. QED
    BY <2>1, <2>2
<1>6. NoOp \in OpShape
  BY <1>1, <1>5 DEF NoOp, OpShape
<1>7. 0 \notin Previews /\ Previews \subseteq Nat
  BY PopupConstants DEF Previews
<1>8. QED
  BY <1>1, <1>3, <1>4, <1>6, <1>7

LEMMA PopupNullFields ==
    /\ NoJob.status = "none" /\ NoJob.stage = "over" /\ NoJob.answers = {}
    /\ NoOp.kind = "none" /\ NoOp.opened = {} /\ NoOp.filled = {} /\ NoOp.left = {}
    /\ NoOp.result = "none"
  BY DEF NoJob, NoOp

LEMMA EditorFact ==
    ASSUME NEW text \in Texts, NEW from \in Nat
    PROVE  /\ Editor(text, from) \in EditorShape /\ Editor(text, from).text = text
           /\ Editor(text, from).edited = FALSE /\ Editor(text, from).blocked = FALSE
           /\ Editor(text, from).from = from
  BY DEF Editor, EditorShape
LEMMA PopupInitInv == PopupInit => PopupInv
<1> SUFFICES ASSUME PopupInit PROVE PopupInv
  OBVIOUS
<1>1. /\ review = NoReview /\ editors = NoEditors /\ op = NoOp /\ told = "idle" /\ wrote = {}
      /\ sent = NeverSent /\ job = [r \in Previews |-> NoJob]
  BY DEF PopupInit
<1>2. PopupTyping
  <2>1. page \in DocumentShape
    BY DEF PopupInit, NewPage, DocumentShape, Texts
  <2>2. sent \in [Questions -> Nat]
    BY <1>1 DEF NeverSent
  <2>3. tool \in {"ats", "internsg"}
    BY PopupConstants DEF PopupInit
  <2>4. session = 1 /\ saved = 0 /\ turns = 0 /\ turns <= MaxTurns
    BY PopupConstants DEF PopupInit
  <2>5. QED
    BY <1>1, <2>1, <2>2, <2>3, <2>4, PopupNulls DEF PopupTyping
<1>3. ReviewInv
  BY <1>1, PopupNulls, PopupNullFields DEF ReviewInv, AnswersOfThisPreview
<1>4. JobInv
  BY <1>1, PopupNulls, PopupNullFields DEF JobInv, Valid
<1>5. FillInv /\ ShownInv
  BY <1>1, PopupNullFields DEF FillInv, ShownInv, ToldTruly
<1>6. SentInv
  BY <1>1 DEF SentInv, NeverSent
<1>7. QED
  BY <1>2, <1>3, <1>4, <1>5, <1>6 DEF PopupInv

\* What happens to the page alone disturbs nothing of the popup.
LEMMA PageAlone ==
    ASSUME PopupInv, PopupTyping',
           UNCHANGED <<tool, session, review, editors, job, op, told, wrote, sent>>
    PROVE  PopupInv'
<1>0. ReviewInv /\ JobInv /\ FillInv /\ ShownInv /\ SentInv
  BY DEF PopupInv
<1>1. ReviewInv'
  BY <1>0 DEF ReviewInv, AnswersOfThisPreview, NextPreview
<1>2. JobInv'
  BY <1>0 DEF JobInv, Valid
<1>3. FillInv'
  BY <1>0 DEF FillInv, ToldTruly
<1>4. ShownInv'
  BY <1>0 DEF ShownInv, Valid, Sendable
<1>5. SentInv'
  BY <1>0 DEF SentInv
<1>6. QED
  BY <1>1, <1>2, <1>3, <1>4, <1>5 DEF PopupInv

LEMMA TurnFact == PopupTyping /\ TakesTurn =>
    turns' \in Nat /\ turns' = turns + 1 /\ turns' <= MaxTurns
                      /\ session <= turns' + 1 /\ saved <= turns'
<1> SUFFICES ASSUME PopupTyping, TakesTurn
    PROVE turns' \in Nat /\ turns' = turns + 1 /\ turns' <= MaxTurns
          /\ session <= turns' + 1 /\ saved <= turns'
  OBVIOUS
<1>1. MaxTurns \in Nat
  BY PopupConstants
<1>2. turns < MaxTurns /\ turns' = turns + 1
  BY DEF TakesTurn
<1>3. /\ turns \in Nat /\ session \in Nat /\ saved \in Nat
      /\ session <= turns + 1 /\ saved <= turns
  BY DEF PopupTyping
<1>4. QED
  BY <1>1, <1>2, <1>3

LEMMA AroundStep ==
    ASSUME PopupInv,
           \/ Leave \/ Reload \/ SaveProfile
           \/ \E q \in Questions : AnswerOnWebsite(q) \/ RenderAnew(q)
    PROVE  PopupInv'
<1>1. TakesTurn /\ UNCHANGED <<tool, session, review, editors, job, op, told, wrote, sent>>
  BY DEF Leave, Reload, SaveProfile, AnswerOnWebsite, RenderAnew
<1>2. PopupTyping
  BY DEF PopupInv
<1>3. page' \in DocumentShape /\ saved' \in Nat /\ saved' <= turns'
  <2>0. page \in DocumentShape /\ page.document \in Nat /\ saved \in Nat /\ saved <= turns
        /\ turns' = turns + 1 /\ turns \in Nat
    BY <1>1, <1>2, TurnFact DEF PopupTyping, DocumentShape
  <2>1. CASE Leave
    BY <2>0, <2>1, <1>1, <1>2, TurnFact DEF Leave, DocumentShape
  <2>2. CASE Reload
    <3> DEFINE d == page.document + 1
    <3>1. page' = NewPage(d) /\ d \in Nat /\ saved' = saved
      BY <2>0, <2>2 DEF Reload
    <3> HIDE DEF d
    <3>2. page' \in DocumentShape
      BY <3>1 DEF NewPage, DocumentShape, Texts
    <3>3. QED
      BY <2>0, <3>1, <3>2
  <2>3. CASE SaveProfile
    BY <2>0, <2>3 DEF SaveProfile
  <2>4. ASSUME NEW q \in Questions, AnswerOnWebsite(q)
        PROVE page' \in DocumentShape /\ saved' \in Nat /\ saved' <= turns'
    <3>1. page' \in DocumentShape
      BY <2>0, <2>4 DEF AnswerOnWebsite, DocumentShape
    <3>2. saved' = saved
      BY <2>4 DEF AnswerOnWebsite
    <3>3. QED
      BY <2>0, <3>1, <3>2
  <2>5. ASSUME NEW q \in Questions, RenderAnew(q)
        PROVE page' \in DocumentShape /\ saved' \in Nat /\ saved' <= turns'
    <3>1. page' \in DocumentShape
      BY <2>0, <2>5 DEF RenderAnew, DocumentShape
    <3>2. saved' = saved
      BY <2>5 DEF RenderAnew
    <3>3. QED
      BY <2>0, <3>1, <3>2
  <2>6. QED
    BY <2>1, <2>2, <2>3, <2>4, <2>5
<1>4. PopupTyping'
  BY <1>1, <1>2, <1>3, TurnFact DEF PopupTyping
<1>5. QED
  BY <1>1, <1>4, PageAlone

\* A cancelled job stays what it is or is forgotten, and writes nothing any more.
LEMMA CancelledFact ==
    ASSUME PopupTyping, JobInv, job' = JobsCancelled
    PROVE  /\ job' \in [Previews -> JobShape]
           /\ \A r \in Previews :
                 /\ job'[r].status = "none" <=> job[r].status = "none"
                 /\ job'[r].status = "preparing" => job'[r].cancelled
                 /\ job'[r].stage # "over" => job'[r].status = "preparing"
                 /\ job'[r].answers \subseteq job'[r].fields
           /\ NextPreview' = NextPreview
<1>1. job \in [Previews -> JobShape]
  BY DEF PopupTyping
<1>2. ASSUME NEW r \in Previews
      PROVE  /\ job'[r] \in JobShape
             /\ job'[r].status = "none" <=> job[r].status = "none"
             /\ job'[r].status = "preparing" => job'[r].cancelled
             /\ job'[r].stage # "over" => job'[r].status = "preparing"
             /\ job'[r].answers \subseteq job'[r].fields
  <2>0. job[r] \in JobShape
    BY <1>1
  <2>1. CASE job[r].status = "none"
    BY <2>1, PopupNulls, PopupNullFields DEF JobsCancelled
  <2>2. CASE job[r].status = "preparing"
    <3>1. job'[r] = [job[r] EXCEPT !.cancelled = TRUE]
      BY <2>2 DEF JobsCancelled
    <3>2. QED
      BY <2>0, <2>2, <3>1 DEF JobShape, JobInv
  <2>3. CASE job[r].status = "settled"
    <3>1. job'[r] = [NoJob EXCEPT !.status = "settled"]
      BY <2>3 DEF JobsCancelled
    <3>2. QED
      BY <2>3, <3>1, PopupNulls, PopupNullFields DEF JobShape
  <2>4. QED
    BY <2>0, <2>1, <2>2, <2>3 DEF JobShape
<1>3. job' \in [Previews -> JobShape]
  BY <1>2 DEF JobsCancelled
<1>4. {r \in Previews : job'[r].status # "none"} = {r \in Previews : job[r].status # "none"}
  BY <1>2
<1>5. QED
  BY <1>2, <1>3, <1>4 DEF NextPreview

\* The preview, its answers and its job are dropped.
LEMMA ClearedKeeps ==
    ASSUME PopupInv, Cleared, PopupTyping',
           UNCHANGED <<tool, op, wrote, sent>>
    PROVE  PopupInv'
<1>0. PopupTyping /\ ReviewInv /\ JobInv /\ FillInv /\ ShownInv /\ SentInv
  BY DEF PopupInv
<1>1. review' = NoReview /\ editors' = NoEditors /\ job' = JobsCancelled /\ told' = "idle"
  BY DEF Cleared
<1>2. ReviewInv'
  BY <1>0, <1>1, CancelledFact, PopupNulls DEF ReviewInv, AnswersOfThisPreview
<1>3. JobInv'
  BY <1>0, <1>1, CancelledFact DEF JobInv, Valid
<1>4. FillInv'
  BY <1>0, <1>1, PopupNulls DEF FillInv, ToldTruly
<1>5. ShownInv'
  <2>1. op.kind = "fill" => op.review.id \in Previews
    BY <1>0 DEF FillInv
  <2>2. QED
    BY <1>1, <2>1, PopupNulls DEF ShownInv
<1>6. SentInv'
  BY <1>0, <1>1 DEF SentInv
<1>7. QED
  BY <1>2, <1>3, <1>4, <1>5, <1>6 DEF PopupInv

LEMMA ReconnectStep ==
    ASSUME PopupInv, Reconnect \/ ChangePermissions
    PROVE  PopupInv'
<1>1. PopupTyping /\ JobInv /\ TakesTurn /\ Cleared /\ UNCHANGED <<tool, saved, page, op, wrote, sent>>
      /\ session' \in {session, session + 1}
  BY DEF PopupInv, Reconnect, ChangePermissions
<1>2. session' \in Nat \ {0} /\ session' <= turns' + 1
  <2>1. /\ turns \in Nat /\ session \in Nat \ {0} /\ session <= turns + 1
        /\ turns' = turns + 1
    BY <1>1, TurnFact DEF PopupTyping
  <2>2. QED
    BY <1>1, <2>1
<1>3. PopupTyping'
  BY <1>1, <1>2, TurnFact, CancelledFact, PopupNulls DEF PopupTyping, Cleared
<1>4. QED
  BY <1>1, <1>3, ClearedKeeps

LEMMA EditStep ==
    ASSUME PopupInv, NEW q \in Questions, Edit(q)
    PROVE  PopupInv'
<1>0. PopupTyping /\ ReviewInv /\ JobInv /\ FillInv /\ SentInv
  BY DEF PopupInv
<1>1. /\ TakesTurn /\ op.kind = "none" /\ review # NoReview
      /\ UNCHANGED <<tool, session, saved, page, review, job, op, told, wrote, sent>>
  BY DEF Edit, Busy
<1>2. /\ editors' \in EditorsShape /\ editors'.of = editors.of
      /\ \A p \in Questions : /\ editors'.at[p].blocked = editors.at[p].blocked
                              /\ editors'.at[p].from \in {0, editors.at[p].from}
  <2>1. editors \in EditorsShape
    BY <1>0 DEF PopupTyping
  <2>2. PICK text \in {"user", "empty"} : editors' = [editors EXCEPT
            !.at[q].text = text, !.at[q].edited = TRUE, !.at[q].from = 0]
    BY DEF Edit
  <2>3. text \in Texts
    BY DEF Texts
  <2>4. editors.at \in [Questions -> EditorShape]
    BY <2>1 DEF EditorsShape
  <2>5. editors'.of = editors.of /\ editors' = [of |-> editors.of, at |-> editors'.at]
    BY <2>1, <2>2 DEF EditorsShape
  <2>6. editors'.at = [editors.at EXCEPT ![q] =
            [editors.at[q] EXCEPT !.text = text, !.edited = TRUE, !.from = 0]]
    BY <2>1, <2>2 DEF EditorsShape
  <2>7. [editors.at[q] EXCEPT !.text = text, !.edited = TRUE, !.from = 0] \in EditorShape
    BY <2>3, <2>4 DEF EditorShape
  <2>8. editors'.at \in [Questions -> EditorShape]
    BY <2>4, <2>6, <2>7
  <2>9. \A p \in Questions : /\ editors'.at[p].blocked = editors.at[p].blocked
                             /\ editors'.at[p].from \in {0, editors.at[p].from}
    BY <2>4, <2>6 DEF EditorShape
  <2>10. editors.of \in Nat
    BY <2>1 DEF EditorsShape
  <2>11. QED
    BY <2>5, <2>8, <2>9, <2>10 DEF EditorsShape
<1>3. PopupTyping'
  BY <1>0, <1>1, <1>2, TurnFact DEF PopupTyping
<1>4. ReviewInv'
  BY <1>0, <1>1, <1>2, PopupNulls DEF ReviewInv, AnswersOfThisPreview, NextPreview
<1>5. JobInv'
  BY <1>0, <1>1 DEF JobInv, Valid
<1>6. FillInv' /\ ShownInv'
  BY <1>0, <1>1 DEF FillInv, ShownInv, ToldTruly
<1>7. SentInv'
  BY <1>0, <1>1, <1>2 DEF SentInv
<1>8. QED
  BY <1>3, <1>4, <1>5, <1>6, <1>7 DEF PopupInv

\* The user's other operations write nothing of a preview or a fill.
LEMMA OtherOp ==
    ASSUME PopupTyping, NEW n \in Nat
    PROVE  LET o == [NoOp EXCEPT !.kind = "other", !.by = n]
           IN  o \in OpShape /\ o.kind = "other" /\ o.opened = {} /\ o.filled = {}
  BY PopupNulls, PopupNullFields DEF OpShape

LEMMA OtherStep ==
    ASSUME PopupInv, StartOther \/ EndOther
    PROVE  PopupInv'
<1>0. PopupTyping /\ ReviewInv /\ JobInv /\ FillInv /\ SentInv
  BY DEF PopupInv
<1>1. /\ op.kind \in {"none", "other"}
      /\ UNCHANGED <<tool, session, saved, page, review, editors, job, told, wrote, sent>>
  BY DEF StartOther, EndOther, Busy
<1>2. /\ op' \in OpShape /\ op'.kind \in {"none", "other"} /\ op'.opened = {} /\ op'.filled = {}
      /\ turns' \in Nat /\ turns' <= MaxTurns /\ session <= turns' + 1 /\ saved <= turns'
  <2>1. session \in Nat
    BY <1>0 DEF PopupTyping
  <2>2. CASE StartOther
    BY <1>0, <2>1, <2>2, OtherOp, TurnFact DEF StartOther
  <2>3. CASE EndOther
    BY <1>0, <2>3, PopupNulls, PopupNullFields DEF EndOther, OpEnds, PopupTyping
  <2>4. QED
    BY <2>2, <2>3
<1>3. PopupTyping'
  BY <1>0, <1>1, <1>2 DEF PopupTyping
<1>4. ReviewInv'
  BY <1>0, <1>1, <1>2 DEF ReviewInv, AnswersOfThisPreview
<1>5. JobInv'
  BY <1>0, <1>1, <1>2 DEF JobInv, Valid
<1>6. FillInv' /\ ShownInv'
  BY <1>0, <1>1, <1>2 DEF FillInv, ShownInv, ToldTruly
<1>7. SentInv'
  BY <1>0, <1>1 DEF SentInv
<1>8. QED
  BY <1>3, <1>4, <1>5, <1>6, <1>7 DEF PopupInv

LEMMA StartLoadStep ==
    ASSUME PopupInv, StartLoad
    PROVE  PopupInv'
<1>0. PopupTyping /\ ReviewInv /\ JobInv /\ FillInv /\ SentInv
  BY DEF PopupInv
<1>1. /\ op.kind = "none" /\ NextPreview \in Previews
      /\ review' = NoReview /\ editors' = NoEditors /\ job' = JobsCancelled /\ told' = "idle"
      /\ wrote' = {} /\ sent' = NeverSent
      /\ UNCHANGED <<tool, turns, session, saved, page>>
  BY DEF StartLoad, Cleared, Busy
<1>2. op' \in OpShape /\ op'.kind = "load" /\ op'.stage = "inspect" /\ op'.opened = {}
      /\ op'.filled = {}
  <2>1. session \in Nat
    BY <1>0 DEF PopupTyping
  <2>2. op' = [NoOp EXCEPT !.kind = "load", !.stage = "inspect", !.by = session]
    BY DEF StartLoad
  <2>3. QED
    BY <2>1, <2>2, PopupNulls, PopupNullFields DEF OpShape
<1>3. sent' \in [Questions -> Nat] /\ \A q \in Questions : sent'[q] = 0
  BY <1>1 DEF NeverSent
<1>4. PopupTyping'
  BY <1>0, <1>1, <1>2, <1>3, CancelledFact, PopupNulls DEF PopupTyping
<1>5. ReviewInv'
  BY <1>0, <1>1, <1>2, CancelledFact, PopupNulls DEF ReviewInv, AnswersOfThisPreview, NeverSent
<1>6. JobInv'
  BY <1>0, <1>1, <1>2, CancelledFact DEF JobInv, Valid
<1>7. FillInv' /\ ShownInv'
  BY <1>1, <1>2 DEF FillInv, ShownInv, ToldTruly
<1>8. SentInv'
  BY <1>1, <1>3 DEF SentInv
<1>9. QED
  BY <1>4, <1>5, <1>6, <1>7, <1>8 DEF PopupInv

\* Two sorts of operation name a preview, to be shown or to be filled; the former
\* says nothing of a fill.
LEMMA LoadGoesOn ==
    ASSUME PopupInv, op.kind = "load", op' \in OpShape, op'.kind = "load",
           op'.stage \in {"profile", "bind"}, op'.review.id \in Previews, op'.review.by = op'.by,
           op'.opened = op.opened, op'.filled = op.filled,
           UNCHANGED <<tool, turns, session, saved, page, review, editors, job, told, wrote, sent>>
    PROVE  PopupInv'
<1>0. PopupTyping /\ ReviewInv /\ JobInv /\ FillInv /\ SentInv
  BY DEF PopupInv
<1>1. op.opened = {}
  BY <1>0 DEF FillInv
<1>2. PopupTyping'
  BY <1>0 DEF PopupTyping
<1>3. ReviewInv'
  BY <1>0 DEF ReviewInv, AnswersOfThisPreview
<1>4. JobInv'
  BY <1>0 DEF JobInv, Valid
<1>5. FillInv' /\ ShownInv'
  BY <1>0, <1>1 DEF FillInv, ShownInv, ToldTruly
<1>6. SentInv'
  BY <1>0 DEF SentInv
<1>7. QED
  BY <1>2, <1>3, <1>4, <1>5, <1>6 DEF PopupInv

LEMMA ReadStep ==
    ASSUME PopupInv, Inspect \/ LoadProfile
    PROVE  PopupInv'
<1>0. /\ op \in OpShape /\ ReviewInv
      /\ op.kind = "load" /\ op.by = session
      /\ session \in Nat /\ saved \in Nat /\ page \in DocumentShape
      /\ UNCHANGED <<tool, turns, session, saved, page, review, editors, job, told, wrote, sent>>
  BY DEF PopupInv, PopupTyping, Inspect, LoadProfile, SameSession
<1>1. CASE Inspect
  <2> DEFINE next == NextPreview
             r == [id |-> next, by |-> session, saved |-> saved,
                   document |-> page.document, key |-> page.key]
             open == {q \in Questions : page.value[q] = "empty"}
  <2>1. op' = [op EXCEPT !.stage = "profile", !.review = r, !.left = open]
    BY <1>1 DEF Inspect
  <2>2. next \in Previews
    BY <1>0, <1>1 DEF Inspect, ReviewInv
  <2>3. open \in SUBSET Questions
    OBVIOUS
  <2>4. r \in ReviewShape /\ r.id = next /\ r.by = session
    <3> HIDE DEF next
    <3>1. next \in Nat
      BY <2>2, PopupNulls
    <3>2. QED
      BY <1>0, <3>1 DEF ReviewShape, DocumentShape
  <2> HIDE DEF r, open, next
  <2>5. /\ op' \in OpShape /\ op'.kind = "load" /\ op'.stage = "profile" /\ op'.review = r
        /\ op'.by = session /\ op'.opened = op.opened /\ op'.filled = op.filled
    BY <1>0, <2>1, <2>3, <2>4 DEF OpShape
  <2>6. QED
    BY <1>0, <2>2, <2>4, <2>5, LoadGoesOn
<1>2. CASE LoadProfile
  <2>1. op.review \in ReviewShape /\ op.review.id \in Previews /\ op.review.by = op.by
    BY <1>0, <1>2 DEF OpShape, LoadProfile, ReviewInv
  <2>2. op' = [op EXCEPT !.stage = "bind", !.review.saved = saved]
    BY <1>2 DEF LoadProfile
  <2>3. [op.review EXCEPT !.saved = saved] \in ReviewShape
    BY <1>0, <2>1 DEF ReviewShape
  <2>4. /\ op' \in OpShape /\ op'.kind = "load" /\ op'.stage = "bind"
        /\ op'.review.id = op.review.id /\ op'.review.by = op.review.by
        /\ op'.by = op.by /\ op'.opened = op.opened /\ op'.filled = op.filled
    BY <1>0, <2>1, <2>2, <2>3 DEF OpShape, ReviewShape
  <2>5. QED
    BY <1>0, <2>1, <2>4, LoadGoesOn
<1>3. QED
  BY <1>1, <1>2

\* The job of a preview that is shown: new, unless there is nothing to ask for.
LEMMA ShowStep ==
    ASSUME PopupInv, Show
    PROVE  PopupInv'
<1>0. PopupTyping /\ ReviewInv /\ JobInv /\ FillInv /\ SentInv
  BY DEF PopupInv
<1> DEFINE r == op.review
           empty == op.left \ Known
           at == [q \in Questions |->
                    [Editor(IF q \in Known \intersect op.left THEN "saved" ELSE "empty", 0)
                        EXCEPT !.blocked = q \notin op.left]]
           status == IF empty = {} THEN "settled" ELSE "preparing"
           stage == IF empty = {} THEN "over" ELSE "request"
           new == [NoJob EXCEPT !.status = status, !.stage = stage,
                                !.by = r.by, !.saved = r.saved, !.document = r.document, !.fields = empty]
<1>1. /\ op.kind = "load" /\ op.stage = "bind" /\ op.by = session
      /\ review' = r /\ editors' = [of |-> r.id, at |-> at]
      /\ job' = [job EXCEPT ![r.id] = new]
      /\ op' = NoOp
      /\ UNCHANGED <<tool, turns, session, saved, page, told, wrote, sent>>
  BY DEF Show, SameSession, OpEnds
<1>2. /\ op \in OpShape /\ r \in ReviewShape /\ r.id \in Previews /\ r.by = session
      /\ sent = NeverSent /\ r.id # 0
  <2>1. op \in OpShape
    BY <1>0 DEF PopupTyping
  <2>2. QED
    BY <1>0, <1>1, <2>1, PopupNulls DEF OpShape, ReviewInv
<1>3. ASSUME NEW q \in Questions
      PROVE  at[q] \in EditorShape /\ at[q].from = 0
  <2> DEFINE text == IF q \in Known \intersect op.left THEN "saved" ELSE "empty"
             from == 0
  <2>1. text \in Texts /\ from \in Nat
    BY DEF Texts
  <2>2. at[q] = [Editor(text, from) EXCEPT !.blocked = q \notin op.left]
    OBVIOUS
  <2> HIDE DEF text, from
  <2>3. Editor(text, from) \in EditorShape /\ Editor(text, from).from = from
    BY <2>1, EditorFact
  <2>4. at[q] \in EditorShape /\ at[q].from = from
    BY <2>2, <2>3 DEF EditorShape
  <2>5. QED
    BY <2>4 DEF from
<1>4. editors' \in EditorsShape /\ editors'.of = r.id /\ \A q \in Questions : editors'.at[q].from = 0
  <2>1. at \in [Questions -> EditorShape]
    BY <1>3
  <2>2. r.id \in Nat
    BY <1>2, PopupNulls
  <2> HIDE DEF at
  <2>3. editors' \in EditorsShape /\ editors'.of = r.id /\ editors'.at = at
    BY <1>1, <2>1, <2>2 DEF EditorsShape
  <2>4. QED
    BY <1>3, <2>3 DEF at
<1>5. /\ new \in JobShape
      /\ new.stage # "over" => new.status = "preparing"
      /\ new.answers \subseteq new.fields /\ new.awaited = FALSE
  <2>1. empty \in SUBSET Questions
    BY <1>2 DEF OpShape
  <2>2. NoJob \in JobShape /\ NoJob.answers = {}
    BY PopupNulls, PopupNullFields
  <2>3. /\ status \in {"settled", "preparing"} /\ stage \in {"over", "request"}
        /\ stage # "over" => status = "preparing"
    OBVIOUS
  <2>4. r.by \in Nat /\ r.saved \in Nat /\ r.document \in Nat
    BY <1>2 DEF ReviewShape
  <2>5. NoJob.awaited = FALSE
    BY DEF NoJob
  <2> HIDE DEF empty, status, stage
  <2>6. new \in JobShape
    BY <2>1, <2>2, <2>3, <2>4 DEF JobShape
  <2>7. new.stage = stage /\ new.status = status /\ new.fields = empty /\ new.answers = {}
        /\ new.awaited = FALSE
    BY <2>2, <2>5 DEF JobShape
  <2>8. QED
    BY <2>3, <2>6, <2>7
<1>6. job' \in [Previews -> JobShape] /\ job'[r.id] = new
      /\ \A p \in Previews : p # r.id => job'[p] = job[p]
  <2> HIDE DEF new, r, at
  <2>1. job \in [Previews -> JobShape]
    BY <1>0 DEF PopupTyping
  <2>2. r.id \in Previews /\ new \in JobShape /\ job' = [job EXCEPT ![r.id] = new]
    BY <1>1, <1>2, <1>5
  <2>3. QED
    BY <2>1, <2>2
<1> HIDE DEF new, at
<1>7. PopupTyping'
  BY <1>0, <1>1, <1>2, <1>4, <1>6, PopupNulls DEF PopupTyping
<1>8. ReviewInv'
  BY <1>1, <1>2, <1>4, PopupNullFields DEF ReviewInv, AnswersOfThisPreview
<1>9. JobInv'
  BY <1>0, <1>1, <1>5, <1>6, PopupNullFields DEF JobInv, Valid
<1>10. FillInv' /\ ShownInv'
  BY <1>0, <1>1, PopupNullFields DEF FillInv, ShownInv, ToldTruly
<1>11. SentInv'
  BY <1>1, <1>2 DEF SentInv, NeverSent
<1>12. QED
  BY <1>7, <1>8, <1>9, <1>10, <1>11 DEF PopupInv

\* What a job may do to itself and, if it is valid, to the answers shown.
JobMoves ==
    /\ job' \in [Previews -> JobShape]
    /\ \A p \in Previews :
          /\ job'[p].status = "none" <=> job[p].status = "none"
          /\ job'[p].fields = job[p].fields /\ job'[p].answers \subseteq job'[p].fields
          /\ job'[p].stage # "over" => job'[p].status = "preparing"
          /\ job'[p].status = "preparing" =>
                /\ job[p].status = "preparing" /\ job'[p].cancelled = job[p].cancelled
                /\ job'[p].by = job[p].by /\ job'[p].awaited = job[p].awaited
Patches(r) ==
    /\ Valid(r) /\ editors' \in EditorsShape /\ editors'.of = editors.of
    /\ \A q \in Questions : editors'.at[q] # editors.at[q] =>
          /\ q \in job[r].fields /\ Patchable(q)
          /\ editors'.at[q].from = r /\ ~editors'.at[q].blocked /\ ~editors'.at[q].edited

LEMMA JobMoveKeeps ==
    ASSUME PopupInv, NEW r \in Previews, JobMoves, editors' = editors \/ Patches(r),
           UNCHANGED <<tool, turns, session, saved, page, review, op, told, wrote, sent>>
    PROVE  PopupInv'
<1>0. PopupTyping /\ ReviewInv /\ JobInv /\ FillInv /\ ShownInv /\ SentInv
  BY DEF PopupInv
<1>1. NextPreview' = NextPreview
  <2>1. {p \in Previews : job'[p].status # "none"} = {p \in Previews : job[p].status # "none"}
    BY DEF JobMoves
  <2>2. QED
    BY <2>1 DEF NextPreview
<1>2. \A p \in Previews : Valid(p)' => Valid(p) /\ job'[p].awaited = job[p].awaited
  BY DEF JobMoves, Valid
<1>3. PopupTyping'
  BY <1>0 DEF PopupTyping, JobMoves, Patches
<1>4. ReviewInv'
  <2>1. CASE editors' = editors
    BY <1>0, <1>1, <2>1 DEF ReviewInv, AnswersOfThisPreview
  <2>2. CASE Patches(r)
    <3>1. review.id = r /\ review # NoReview /\ editors.of = r /\ r # 0
      BY <1>0, <2>2, PopupNulls DEF Patches, Valid, ReviewInv
    <3>2. AnswersOfThisPreview'
      BY <1>0, <2>2, <3>1 DEF Patches, ReviewInv, AnswersOfThisPreview
    <3>3. QED
      BY <1>0, <1>1, <2>2, <3>1, <3>2 DEF ReviewInv, Patches
  <2>3. QED
    BY <2>1, <2>2
<1>5. JobInv'
  BY <1>0, <1>2 DEF JobInv, JobMoves
<1>6. FillInv'
  BY <1>0 DEF FillInv, ToldTruly, Patches
<1>7. ShownInv'
  <2>1. SUFFICES ASSUME op.kind = "fill" PROVE ShownInv'
    BY DEF ShownInv
  <2>2. op.review.id \in Previews
    BY <1>0, <2>1 DEF FillInv
  <2>3. CASE editors' = editors
    BY <1>0, <1>2, <2>2, <2>3 DEF ShownInv, Sendable, JobMoves
  <2>4. CASE Patches(r)
    <3>1. op.stage = "wait" /\ review.id = r
      BY <1>0, <2>1, <2>4 DEF Patches, JobInv, Valid
    <3>2. SUFFICES ASSUME review = op.review
                   PROVE  /\ \A q \in DOMAIN op.approved :
                                q \in Sendable' /\ editors'.at[q].text = op.approved[q]
                          /\ \A q \in Sendable' \ DOMAIN op.approved :
                                op.pending /\ q \in job'[op.review.id].fields /\ ~editors'.at[q].edited
                          /\ Valid(op.review.id)' => op.pending
      BY <3>1 DEF ShownInv
    <3>3. op.review.id = r /\ op.pending
      BY <1>0, <2>1, <2>4, <3>1, <3>2 DEF ShownInv, Patches
    <3>4. ASSUME NEW q \in DOMAIN op.approved
          PROVE  q \in Sendable' /\ editors'.at[q].text = op.approved[q]
      <4>1. q \in Sendable /\ editors.at[q].text = op.approved[q]
        BY <1>0, <2>1, <3>1, <3>2 DEF ShownInv
      <4>2. editors'.at[q] = editors.at[q]
        BY <2>4, <4>1 DEF Sendable, Patches, Patchable
      <4>3. QED
        BY <4>1, <4>2 DEF Sendable
    <3>5. ASSUME NEW q \in Sendable', q \notin DOMAIN op.approved
          PROVE  q \in job'[r].fields /\ ~editors'.at[q].edited
      <4>1. q \in Questions /\ ~editors'.at[q].blocked /\ editors'.at[q].text # "empty"
        BY <3>5 DEF Sendable
      <4>2. CASE editors'.at[q] = editors.at[q]
        BY <1>0, <2>1, <3>1, <3>2, <3>3, <3>5, <4>1, <4>2 DEF ShownInv, Sendable, JobMoves
      <4>3. CASE editors'.at[q] # editors.at[q]
        BY <2>4, <4>1, <4>3 DEF Patches, JobMoves
      <4>4. QED
        BY <4>2, <4>3
    <3>6. QED
      BY <3>3, <3>4, <3>5
  <2>5. QED
    BY <2>3, <2>4
<1>8. SentInv'
  BY <1>0 DEF SentInv, Patches, Patchable
<1>9. QED
  BY <1>3, <1>4, <1>5, <1>6, <1>7, <1>8 DEF PopupInv

LEMMA SettledMoves ==
    ASSUME PopupTyping, JobInv, NEW r \in Previews, job[r].status = "preparing", job' = Settled(r)
    PROVE  JobMoves /\ job'[r].status = "settled"
<1> DEFINE new == [NoJob EXCEPT !.status = "settled", !.fields = job[r].fields]
<1>1. job \in [Previews -> JobShape] /\ job[r].fields \in SUBSET Questions
  BY DEF PopupTyping, JobShape
<1>2. new \in JobShape /\ new.status = "settled" /\ new.stage = "over"
      /\ new.fields = job[r].fields /\ new.answers = {}
  BY <1>1, PopupNulls, PopupNullFields DEF JobShape
<1>3. job' = [job EXCEPT ![r] = new]
  BY DEF Settled
<1> HIDE DEF new
<1>4. job' \in [Previews -> JobShape] /\ job'[r] = new /\ \A p \in Previews : p # r => job'[p] = job[p]
  BY <1>1, <1>2, <1>3
<1>5. QED
  BY <1>2, <1>4 DEF JobMoves, JobInv

\* A job whose answers have come, or that has read the profile again.
LEMMA OnwardMoves ==
    ASSUME PopupTyping, JobInv, NEW r \in Previews, job[r].status = "preparing",
           NEW qs \in SUBSET job[r].fields, NEW s \in {"reload", "bind"},
           \/ job' = [job EXCEPT ![r].answers = qs, ![r].stage = s]
           \/ job' = [job EXCEPT ![r].stage = s]
    PROVE  JobMoves
<1>1. job \in [Previews -> JobShape] /\ job[r] \in JobShape /\ qs \subseteq Questions
  BY DEF PopupTyping, JobShape
<1>2. ASSUME NEW new \in JobShape, job' = [job EXCEPT ![r] = new],
             new.answers \subseteq new.fields, new.fields = job[r].fields, new.status = job[r].status,
             new.cancelled = job[r].cancelled, new.by = job[r].by, new.awaited = job[r].awaited
      PROVE  JobMoves
  <2>1. job' \in [Previews -> JobShape] /\ job'[r] = new
        /\ \A p \in Previews : p # r => job'[p] = job[p]
    BY <1>1, <1>2
  <2>2. QED
    BY <1>2, <2>1 DEF JobMoves, JobInv
<1>3. CASE job' = [job EXCEPT ![r].answers = qs, ![r].stage = s]
  <2> DEFINE new == [job[r] EXCEPT !.answers = qs, !.stage = s]
  <2>1. new \in JobShape /\ new.answers = qs
    BY <1>1 DEF JobShape
  <2>2. job' = [job EXCEPT ![r] = new]
    BY <1>1, <1>3
  <2>3. /\ new.fields = job[r].fields /\ new.status = job[r].status
        /\ new.cancelled = job[r].cancelled /\ new.by = job[r].by /\ new.awaited = job[r].awaited
    BY <1>1 DEF JobShape
  <2> HIDE DEF new
  <2>4. QED
    BY <1>2, <2>1, <2>2, <2>3
<1>4. CASE job' = [job EXCEPT ![r].stage = s]
  <2> DEFINE new == [job[r] EXCEPT !.stage = s]
  <2>1. new \in JobShape /\ new.answers = job[r].answers
    BY <1>1 DEF JobShape
  <2>2. job' = [job EXCEPT ![r] = new]
    BY <1>1, <1>4
  <2>3. /\ new.fields = job[r].fields /\ new.status = job[r].status
        /\ new.cancelled = job[r].cancelled /\ new.by = job[r].by /\ new.awaited = job[r].awaited
    BY <1>1 DEF JobShape
  <2>4. job[r].answers \subseteq job[r].fields
    BY DEF JobInv
  <2> HIDE DEF new
  <2>5. QED
    BY <1>2, <2>1, <2>2, <2>3, <2>4
<1>5. QED
  BY <1>3, <1>4

LEMMA JobAsksStep ==
    ASSUME PopupInv, NEW r \in Previews,
           \/ \E qs \in SUBSET job[r].fields : JobAnswered(r, qs)
           \/ Reread(r)
    PROVE  PopupInv'
<1>0. PopupTyping /\ JobInv
  BY DEF PopupInv
<1>1. UNCHANGED <<tool, turns, session, saved, page, review, editors, op, told, wrote, sent>>
  BY DEF JobAnswered, Reread
<1>2. job[r].status = "preparing"
  BY <1>0 DEF JobAnswered, Reread, JobInv
<1>3. JobMoves
  <2>1. CASE \E qs \in SUBSET job[r].fields : JobAnswered(r, qs)
    <3>1. PICK qs \in SUBSET job[r].fields : JobAnswered(r, qs)
      BY <2>1
    <3>2. \/ job' = [job EXCEPT ![r].answers = qs, ![r].stage = "reload"]
          \/ job' = Settled(r)
      BY <3>1 DEF JobAnswered
    <3>3. QED
      BY <1>0, <1>2, <3>2, SettledMoves, OnwardMoves
  <2>2. CASE Reread(r)
    <3>1. job' = [job EXCEPT ![r].stage = "bind"] \/ job' = Settled(r)
      BY <2>2 DEF Reread
    <3>2. {} \in SUBSET job[r].fields
      OBVIOUS
    <3>3. QED
      BY <1>0, <1>2, <3>1, <3>2, SettledMoves, OnwardMoves
  <2>3. QED
    BY <2>1, <2>2
<1>4. QED
  BY <1>1, <1>3, JobMoveKeeps

LEMMA PatchedFact ==
    ASSUME PopupTyping, NEW r \in Previews, NEW qs, NEW text \in Texts, NEW q \in Questions
    PROVE  LET e == Patched(r, qs, text).at[q]
           IN  \/ e = editors.at[q]
               \/ /\ q \in qs /\ Patchable(q) /\ e \in EditorShape
                  /\ e.from = r /\ e.text = text /\ ~e.blocked /\ ~e.edited
<1>1. editors \in EditorsShape
  BY DEF PopupTyping
<1>2. Patched(r, qs, text).at[q] =
          IF q \in qs /\ Patchable(q) THEN Editor(text, r) ELSE editors.at[q]
  BY <1>1 DEF Patched, EditorsShape
<1>3. r \in Nat
  BY PopupNulls
<1>4. /\ Editor(text, r) \in EditorShape /\ Editor(text, r).text = text
      /\ ~Editor(text, r).edited /\ ~Editor(text, r).blocked /\ Editor(text, r).from = r
  BY <1>3, EditorFact
<1>5. CASE q \in qs /\ Patchable(q)
  <2>1. Patched(r, qs, text).at[q] = Editor(text, r)
    BY <1>2, <1>5
  <2>2. QED
    BY <1>4, <1>5, <2>1
<1>6. CASE ~(q \in qs /\ Patchable(q))
  BY <1>2, <1>6
<1>7. QED
  BY <1>5, <1>6

\* An answer that changes when a job ends is one it may patch, and it is an answer
\* of the model only if the job may add it.
LEMMA JobPatches ==
    ASSUME PopupTyping, JobInv, NEW r \in Previews, Apply(r) \/ TimeOut(r), editors' # editors
    PROVE  /\ Patches(r)
           /\ \A q \in Questions :
                editors'.at[q] # editors.at[q] /\ editors'.at[q].text = "ai" => MayAdd(r)
<1>0. /\ editors \in EditorsShape /\ {"ai", "unfinished"} \subseteq Texts
      /\ job[r].answers \subseteq job[r].fields
  BY DEF PopupTyping, Texts, JobInv
<1>1. Valid(r)
  BY DEF Apply, TimeOut
<1>2. ASSUME NEW q \in Questions
      PROVE  \/ editors'.at[q] = editors.at[q]
             \/ /\ q \in job[r].fields /\ Patchable(q) /\ editors'.at[q] \in EditorShape
                /\ editors'.at[q].from = r /\ ~editors'.at[q].blocked /\ ~editors'.at[q].edited
                /\ editors'.at[q].text = "ai" => MayAdd(r)
  <2>1. CASE Apply(r)
    <3>0. MayAdd(r)
      BY <2>1 DEF Apply
    <3>1. editors' = [editors EXCEPT !.at = [p \in Questions |->
              IF p \in job[r].answers THEN Patched(r, {p}, "ai").at[p]
              ELSE Patched(r, job[r].fields, "unfinished").at[p]]]
      BY <2>1 DEF Apply
    <3>2. editors'.at[q] = IF q \in job[r].answers THEN Patched(r, {q}, "ai").at[q]
                           ELSE Patched(r, job[r].fields, "unfinished").at[q]
      BY <1>0, <3>1 DEF EditorsShape
    <3>3. CASE q \in job[r].answers
      <4>1. editors'.at[q] = Patched(r, {q}, "ai").at[q]
        BY <3>2, <3>3
      <4>2. QED
        BY <1>0, <3>0, <3>3, <4>1, PatchedFact
    <3>4. CASE q \notin job[r].answers
      <4>1. editors'.at[q] = Patched(r, job[r].fields, "unfinished").at[q]
        BY <3>2, <3>4
      <4>2. QED
        BY <1>0, <3>0, <4>1, PatchedFact
    <3>5. QED
      BY <3>3, <3>4
  <2>2. CASE TimeOut(r)
    <3>1. editors' = Patched(r, job[r].fields, "unfinished")
      BY <2>2 DEF TimeOut
    <3>2. "unfinished" # "ai"
      OBVIOUS
    <3>3. QED
      BY <1>0, <3>1, <3>2, PatchedFact
  <2>3. QED
    BY <2>1, <2>2
<1>3. editors' = [of |-> editors.of, at |-> [q \in Questions |-> editors'.at[q]]]
  BY <1>0 DEF Apply, TimeOut, Patched, EditorsShape
<1>4. [q \in Questions |-> editors'.at[q]] \in [Questions -> EditorShape]
  <2>1. editors.at \in [Questions -> EditorShape]
    BY <1>0 DEF EditorsShape
  <2>2. QED
    BY <1>2, <2>1
<1>5. editors' \in EditorsShape /\ editors'.of = editors.of
  BY <1>0, <1>3, <1>4 DEF EditorsShape
<1>6. Patches(r)
  BY <1>1, <1>2, <1>5 DEF Patches
<1>7. QED
  BY <1>2, <1>6

LEMMA JobEndsStep ==
    ASSUME PopupInv, NEW r \in Previews, Apply(r) \/ TimeOut(r)
    PROVE  PopupInv'
<1>0. PopupTyping /\ JobInv
  BY DEF PopupInv
<1>1. /\ job' = Settled(r) /\ job[r].status = "preparing"
      /\ UNCHANGED <<tool, turns, session, saved, page, review, op, told, wrote, sent>>
  BY <1>0 DEF Apply, TimeOut, JobInv
<1>2. JobMoves
  BY <1>0, <1>1, SettledMoves
<1>3. editors' = editors \/ Patches(r)
  BY <1>0, JobPatches
<1>4. QED
  BY <1>1, <1>2, <1>3, JobMoveKeeps

\* What may be sent is a function on the sendable questions.
LEMMA CurrentFact ==
    ASSUME PopupTyping
    PROVE  /\ Sendable \subseteq Questions /\ DOMAIN Current = Sendable
           /\ Current \in UNION {[S -> Texts] : S \in SUBSET Questions}
           /\ \A q \in Sendable : Current[q] = editors.at[q].text
<1>1. \A q \in Questions : editors.at[q].text \in Texts
  BY DEF PopupTyping, EditorsShape, EditorShape
<1>2. Sendable \in SUBSET Questions
  BY DEF Sendable
<1>3. Current \in [Sendable -> Texts]
  BY <1>1, <1>2 DEF Current
<1>4. Current \in UNION {[S -> Texts] : S \in SUBSET Questions}
  BY <1>2, <1>3
<1>5. QED
  BY <1>2, <1>4 DEF Current

LEMMA StartFillStep ==
    ASSUME PopupInv, StartFill
    PROVE  PopupInv'
<1>0. PopupTyping /\ ReviewInv /\ JobInv /\ FillInv /\ SentInv
  BY DEF PopupInv
<1> DEFINE v == Valid(review.id)
           text == Current
<1>1. /\ op.kind = "none" /\ review # NoReview /\ told' = "waiting" /\ wrote' = {}
      /\ job' = IF v THEN [job EXCEPT ![review.id].awaited = TRUE] ELSE job
      /\ op' = [NoOp EXCEPT !.kind = "fill", !.stage = "wait", !.by = session, !.review = review,
                            !.pending = v, !.approved = text]
      /\ UNCHANGED <<tool, turns, session, saved, page, review, editors, sent>>
  BY DEF StartFill, Busy
<1>2. /\ review.id \in Previews /\ review.by = session /\ editors.of = review.id
      /\ review \in ReviewShape /\ session \in Nat /\ v \in BOOLEAN
  BY <1>0, <1>1 DEF ReviewInv, PopupTyping, Valid
<1>3. /\ op' \in OpShape /\ op'.kind = "fill" /\ op'.stage = "wait" /\ op'.by = session
      /\ op'.review = review /\ op'.pending = v /\ op'.approved = text
      /\ op'.opened = {} /\ op'.filled = {} /\ op'.left = {} /\ op'.result = "none"
  <2>1. text \in UNION {[S -> Texts] : S \in SUBSET Questions}
    BY <1>0, CurrentFact
  <2> HIDE DEF v, text
  <2>2. QED
    BY <1>1, <1>2, <2>1, PopupNulls, PopupNullFields DEF OpShape
<1>4. /\ job' \in [Previews -> JobShape]
      /\ \A p \in Previews :
            /\ job'[p].status = job[p].status /\ job'[p].fields = job[p].fields
            /\ job'[p].answers = job[p].answers /\ job'[p].stage = job[p].stage
            /\ job'[p].cancelled = job[p].cancelled /\ job'[p].by = job[p].by
            /\ p # review.id \/ ~v => job'[p] = job[p]
  <2>1. job \in [Previews -> JobShape]
    BY <1>0 DEF PopupTyping
  <2>2. CASE ~v
    BY <1>1, <2>1, <2>2
  <2>3. CASE v
    <3> DEFINE new == [job[review.id] EXCEPT !.awaited = TRUE]
    <3>1. /\ new \in JobShape /\ new.status = job[review.id].status
          /\ new.fields = job[review.id].fields
          /\ new.answers = job[review.id].answers /\ new.stage = job[review.id].stage
          /\ new.cancelled = job[review.id].cancelled /\ new.by = job[review.id].by
      BY <1>2, <2>1 DEF JobShape
    <3>2. job' = [job EXCEPT ![review.id] = new]
      BY <1>1, <1>2, <2>1, <2>3
    <3> HIDE DEF new, v
    <3>3. QED
      BY <1>2, <2>1, <2>3, <3>1, <3>2
  <2>4. QED
    BY <2>2, <2>3
<1>5. \A p \in Previews : Valid(p)' <=> Valid(p)
  BY <1>1, <1>4 DEF Valid
<1>6. PopupTyping'
  BY <1>0, <1>1, <1>3, <1>4 DEF PopupTyping
<1>7. ReviewInv'
  BY <1>0, <1>1, <1>3 DEF ReviewInv, AnswersOfThisPreview
<1>8. JobInv'
  <2>1. ASSUME NEW p \in Previews, Valid(p)' PROVE op'.pending
    <3>1. review.id = p
      BY <1>1, <2>1 DEF Valid
    <3>2. QED
      BY <1>3, <1>5, <2>1, <3>1
  <2>2. QED
    BY <1>0, <1>3, <1>4, <2>1 DEF JobInv
<1>9. FillInv'
  BY <1>1, <1>2, <1>3 DEF FillInv, ToldTruly
<1>10. ShownInv'
  <2>1. Sendable' = Sendable /\ review' = op'.review
    BY <1>1, <1>3 DEF Sendable
  <2>2. /\ \A q \in DOMAIN op'.approved : q \in Sendable' /\ editors'.at[q].text = op'.approved[q]
        /\ Sendable' \ DOMAIN op'.approved = {}
    BY <1>0, <1>1, <1>3, <2>1, CurrentFact
  <2>3. Valid(op.review.id)' => op'.pending
    BY <1>1, <1>2, <1>3, <1>5
  <2>4. QED
    BY <1>3, <2>2, <2>3 DEF ShownInv
<1>11. SentInv'
  BY <1>0, <1>1 DEF SentInv
<1>12. QED
  BY <1>6, <1>7, <1>8, <1>9, <1>10, <1>11 DEF PopupInv

\* What the merge sends is what the popup shows then.
LEMMA MergedFact ==
    ASSUME PopupInv, op.kind = "fill", op.stage = "wait", review = op.review
    PROVE  /\ DOMAIN Merged = Sendable
           /\ Merged \in UNION {[S -> Texts] : S \in SUBSET Questions}
           /\ \A q \in Sendable : Merged[q] = editors.at[q].text
<1>0. PopupTyping /\ ShownInv
  BY DEF PopupInv
<1> DEFINE late == {q \in Sendable : op.pending /\ q \in job[op.review.id].fields
                                        /\ ~editors.at[q].edited}
           shown == DOMAIN op.approved \union late
<1>1. /\ \A q \in DOMAIN op.approved : q \in Sendable /\ editors.at[q].text = op.approved[q]
      /\ \A q \in Sendable \ DOMAIN op.approved :
            op.pending /\ q \in job[op.review.id].fields /\ ~editors.at[q].edited
  BY <1>0 DEF ShownInv
<1>2. shown = Sendable
  BY <1>1
<1>3. Merged = [q \in shown |-> IF q \in late THEN editors.at[q].text ELSE op.approved[q]]
  BY DEF Merged
<1>4. \A q \in shown : IF q \in late THEN editors.at[q].text = editors.at[q].text
                       ELSE op.approved[q] = editors.at[q].text
  BY <1>1
<1> HIDE DEF shown, late
<1>5. DOMAIN Merged = Sendable /\ \A q \in Sendable : Merged[q] = editors.at[q].text
  BY <1>2, <1>3, <1>4
<1>6. Merged = Current
  BY <1>2, <1>3, <1>5 DEF Current
<1>7. QED
  BY <1>0, <1>5, <1>6, CurrentFact

LEMMA MergeStep ==
    ASSUME PopupInv, Merge
    PROVE  PopupInv'
<1>0. PopupTyping /\ ReviewInv /\ JobInv /\ FillInv /\ SentInv
  BY DEF PopupInv
<1>1. /\ op.kind = "fill" /\ op.stage = "wait" /\ review = op.review /\ job' = JobsCancelled
      /\ UNCHANGED <<tool, turns, session, saved, page, review, editors, told, wrote, sent>>
  BY DEF Merge
<1>2. /\ op' \in OpShape /\ op'.stage = "profile" /\ op'.approved = Merged /\ op'.left = op.left
      /\ op'.kind = op.kind /\ op'.by = op.by /\ op'.review = op.review
      /\ op'.opened = op.opened /\ op'.filled = op.filled /\ op'.result = op.result
  <2>1. op \in OpShape /\ op.left \in SUBSET Questions
    BY <1>0 DEF PopupTyping, OpShape
  <2>2. Merged \in UNION {[S -> Texts] : S \in SUBSET Questions}
    BY <1>1, MergedFact
  <2>3. op' = [op EXCEPT !.approved = Merged, !.stage = "profile"]
    BY DEF Merge
  <2>4. QED
    BY <2>1, <2>2, <2>3 DEF OpShape
<1>3. \A p \in Previews : ~Valid(p)'
  BY <1>0, <1>1, CancelledFact DEF Valid
<1>4. PopupTyping'
  BY <1>0, <1>1, <1>2, CancelledFact DEF PopupTyping
<1>5. ReviewInv'
  BY <1>0, <1>1, <1>2 DEF ReviewInv, AnswersOfThisPreview
<1>6. JobInv'
  BY <1>0, <1>1, <1>2, <1>3, CancelledFact DEF JobInv
<1>7. FillInv'
  BY <1>0, <1>1, <1>2 DEF FillInv, ToldTruly
<1>8. ShownInv'
  <2>1. Sendable' = Sendable
    BY <1>1 DEF Sendable
  <2>2. DOMAIN op'.approved = Sendable' /\ \A q \in Sendable' : editors'.at[q].text = op'.approved[q]
    BY <1>1, <1>2, <2>1, MergedFact
  <2>3. QED
    BY <1>2, <2>2 DEF ShownInv
<1>9. SentInv'
  BY <1>0, <1>1 DEF SentInv
<1>10. QED
  BY <1>4, <1>5, <1>6, <1>7, <1>8, <1>9 DEF PopupInv

LEMMA CheckProfileStep ==
    ASSUME PopupInv, CheckProfile
    PROVE  PopupInv'
<1>0. PopupTyping /\ ReviewInv /\ JobInv /\ FillInv /\ ShownInv /\ SentInv
  BY DEF PopupInv
<1>1. /\ op.kind = "fill" /\ op.stage = "profile" /\ review = op.review
      /\ UNCHANGED <<tool, turns, session, saved, page, wrote, sent>>
  BY DEF CheckProfile
<1>2. CASE saved = review.saved
  <2>1. op' = [op EXCEPT !.stage = "bind"] /\ UNCHANGED <<review, editors, job, told>>
    BY <1>2 DEF CheckProfile
  <2>2. /\ op' \in OpShape /\ op'.stage = "bind" /\ op'.approved = op.approved /\ op'.left = op.left
        /\ op'.kind = op.kind /\ op'.by = op.by /\ op'.review = op.review
        /\ op'.opened = op.opened /\ op'.filled = op.filled /\ op'.result = op.result
    BY <1>0, <2>1 DEF PopupTyping, OpShape
  <2>3. PopupTyping'
    BY <1>0, <1>1, <2>1, <2>2 DEF PopupTyping
  <2>4. ReviewInv'
    BY <1>0, <1>1, <2>1, <2>2 DEF ReviewInv, AnswersOfThisPreview
  <2>5. JobInv'
    BY <1>0, <1>1, <2>1, <2>2 DEF JobInv, Valid
  <2>6. FillInv'
    BY <1>0, <1>1, <2>1, <2>2 DEF FillInv, ToldTruly
  <2>7. ShownInv'
    BY <1>0, <1>1, <2>1, <2>2 DEF ShownInv, Sendable
  <2>8. SentInv'
    BY <1>0, <1>1, <2>1 DEF SentInv
  <2>9. QED
    BY <2>3, <2>4, <2>5, <2>6, <2>7, <2>8 DEF PopupInv
<1>3. CASE saved # review.saved
  <2>1. /\ op' = NoOp /\ review' = NoReview /\ editors' = NoEditors /\ job' = JobsCancelled
        /\ told' = "idle"
    BY <1>3 DEF CheckProfile, Cleared, OpEnds
  <2>2. PopupTyping'
    BY <1>0, <1>1, <2>1, CancelledFact, PopupNulls DEF PopupTyping
  <2>3. ReviewInv'
    BY <2>1, PopupNulls, PopupNullFields DEF ReviewInv, AnswersOfThisPreview
  <2>4. JobInv'
    BY <1>0, <2>1, CancelledFact DEF JobInv, Valid
  <2>5. FillInv' /\ ShownInv'
    BY <2>1, PopupNullFields DEF FillInv, ShownInv, ToldTruly
  <2>6. SentInv'
    BY <1>0, <1>1, <2>1 DEF SentInv
  <2>7. QED
    BY <2>2, <2>3, <2>4, <2>5, <2>6 DEF PopupInv
<1>4. QED
  BY <1>2, <1>3

LEMMA DispatchStep ==
    ASSUME PopupInv, Dispatch
    PROVE  PopupInv'
<1>0. PopupTyping /\ ReviewInv /\ JobInv /\ FillInv /\ ShownInv /\ SentInv
  BY DEF PopupInv
<1> DEFINE first == FirstScript
<1>1. /\ op.kind = "fill" /\ op.stage = "bind" /\ op.by = session /\ review = op.review
      /\ told' = "filling" /\ Consume
      /\ op' = [op EXCEPT !.stage = "page", !.left = first]
      /\ UNCHANGED <<tool, turns, session, saved, page, job, wrote>>
  BY DEF Dispatch, SameSession
<1>2. /\ op.review.id \in Previews /\ op.review.by = session /\ review # NoReview
      /\ editors.of = op.review.id /\ op.opened = {} /\ DOMAIN op.approved = Sendable
      /\ wrote = {} /\ op.filled = {} /\ \A q \in Sendable : editors.at[q].text = op.approved[q]
  <2>1. op.review.id \in Previews /\ op.review.by = op.by /\ wrote = {} /\ op.filled = {}
        /\ op.opened = {}
    BY <1>0, <1>1 DEF FillInv
  <2>2. review # NoReview
    BY <1>1, <2>1, PopupNulls
  <2>3. QED
    BY <1>0, <1>1, <2>1, <2>2 DEF ReviewInv, ShownInv
<1>3. first \subseteq DOMAIN op.approved /\ first \in SUBSET Questions
  BY <1>2 DEF FirstScript, Sendable
<1>4. /\ op' \in OpShape /\ op'.stage = "page" /\ op'.approved = op.approved /\ op'.left = first
      /\ op'.kind = op.kind /\ op'.by = op.by /\ op'.review = op.review
      /\ op'.opened = op.opened /\ op'.filled = op.filled /\ op'.result = op.result
  <2>1. op \in OpShape
    BY <1>0 DEF PopupTyping
  <2> HIDE DEF first
  <2>2. QED
    BY <1>1, <1>3, <2>1 DEF OpShape
<1>5. /\ review' \in {NoReview, review} /\ editors' \in EditorsShape /\ editors'.of = editors.of
      /\ \A q \in Questions : /\ editors'.at[q].text = editors.at[q].text
                              /\ editors'.at[q].from = editors.at[q].from
                              /\ editors.at[q].blocked => editors'.at[q].blocked
                              /\ review' # NoReview /\ q \in DOMAIN op.approved
                                    => editors'.at[q].blocked
  <2>0. editors \in EditorsShape /\ editors.at \in [Questions -> EditorShape] /\ editors.of \in Nat
    BY <1>0 DEF PopupTyping, EditorsShape
  <2>1. CASE tool = "ats"
    BY <1>1, <2>0, <2>1 DEF Consume
  <2>2. CASE tool # "ats"
    <3> DEFINE at == [q \in Questions |->
                  [editors.at[q] EXCEPT !.blocked = @ \/ q \in DOMAIN op.approved]]
    <3>1. review' = review /\ editors' = [editors EXCEPT !.at = at]
      BY <1>1, <2>2 DEF Consume
    <3>2. ASSUME NEW q \in Questions
          PROVE  /\ at[q] \in EditorShape
                 /\ at[q].text = editors.at[q].text /\ at[q].from = editors.at[q].from
                 /\ editors.at[q].blocked => at[q].blocked
                 /\ q \in DOMAIN op.approved => at[q].blocked
      <4> DEFINE b == editors.at[q].blocked \/ q \in DOMAIN op.approved
      <4>1. editors.at[q] \in EditorShape /\ b \in BOOLEAN
        BY <2>0
      <4>2. at[q] = [editors.at[q] EXCEPT !.blocked = b]
        OBVIOUS
      <4>3. (editors.at[q].blocked => b) /\ (q \in DOMAIN op.approved => b)
        OBVIOUS
      <4> HIDE DEF b, at
      <4>4. at[q] \in EditorShape /\ at[q].text = editors.at[q].text
            /\ at[q].from = editors.at[q].from /\ at[q].blocked = b
        BY <4>1, <4>2 DEF EditorShape
      <4>5. QED
        BY <4>3, <4>4
    <3>3. at \in [Questions -> EditorShape]
      BY <3>2
    <3> HIDE DEF at
    <3>4. editors' \in EditorsShape /\ editors'.of = editors.of /\ editors'.at = at
      BY <2>0, <3>1, <3>3 DEF EditorsShape
    <3>5. QED
      BY <3>1, <3>2, <3>4
  <2>3. QED
    BY <2>1, <2>2
<1>6. /\ sent' \in [Questions -> Nat]
      /\ \A q \in Questions :
            sent'[q] <= 1 /\ (review' # NoReview /\ ~editors'.at[q].blocked => sent'[q] = 0)
  <2>1. ASSUME NEW q \in Questions
        PROVE  /\ sent'[q] \in Nat /\ sent'[q] <= 1
               /\ review' # NoReview /\ ~editors'.at[q].blocked => sent'[q] = 0
    <3>1. sent[q] \in Nat /\ sent[q] <= 1 /\ (~editors.at[q].blocked => sent[q] = 0)
      BY <1>0, <1>2 DEF PopupTyping, SentInv
    <3>2. sent'[q] = IF q \in DOMAIN op.approved THEN sent[q] + 1 ELSE sent[q]
      BY DEF Dispatch
    <3>3. CASE q \in DOMAIN op.approved
      <4>1. sent[q] = 0 /\ sent'[q] = sent[q] + 1
        BY <1>2, <3>1, <3>2, <3>3 DEF Sendable
      <4>2. sent'[q] = 1
        BY <4>1
      <4>3. QED
        BY <1>5, <3>3, <4>2
    <3>4. CASE q \notin DOMAIN op.approved
      BY <1>5, <3>1, <3>2, <3>4
    <3>5. QED
      BY <3>3, <3>4
  <2>2. sent' = [q \in Questions |-> sent'[q]]
    BY DEF Dispatch
  <2>3. QED
    BY <2>1, <2>2
<1>7. \A p \in Previews : ~Valid(p)'
  BY <1>0, <1>1, <1>5, PopupNulls DEF JobInv, Valid
<1> HIDE DEF first
<1>8. PopupTyping'
  BY <1>0, <1>1, <1>4, <1>5, <1>6, PopupNulls DEF PopupTyping
<1>9. ReviewInv'
  BY <1>0, <1>1, <1>2, <1>4, <1>5, PopupNulls DEF ReviewInv, AnswersOfThisPreview
<1>10. JobInv'
  BY <1>0, <1>1, <1>4, <1>7 DEF JobInv
<1>11. FillInv'
  BY <1>0, <1>1, <1>2, <1>3, <1>4, <1>5 DEF FillInv, ToldTruly
<1>12. ShownInv'
  <2>1. \A q \in Questions : editors.at[q].blocked \/ editors.at[q].text = "empty"
                                 \/ q \in DOMAIN op.approved
    BY <1>2 DEF Sendable
  <2>2. DOMAIN op.approved \subseteq Questions
    BY <1>2 DEF Sendable
  <2>3. QED
    BY <1>2, <1>4, <1>5, <2>1, <2>2 DEF ShownInv
<1>13. SentInv'
  BY <1>6 DEF SentInv
<1>14. QED
  BY <1>8, <1>9, <1>10, <1>11, <1>12, <1>13 DEF PopupInv

\* From the script on a fill says no more of the popup than what it has written.
LEMMA FillGoesOn ==
    ASSUME PopupInv, op.kind = "fill", op.stage \in {"page", "writing", "report", "between"},
           op' \in OpShape, op'.kind = "fill", op'.stage \in {"page", "writing", "report", "between"},
           op'.by = op.by, op'.review = op.review, op'.approved = op.approved,
           FillInv', page' \in DocumentShape, wrote' \subseteq Questions,
           UNCHANGED <<tool, turns, session, saved, review, editors, job, told, sent>>
    PROVE  PopupInv'
<1>0. PopupTyping /\ ReviewInv /\ JobInv /\ ShownInv /\ SentInv
  BY DEF PopupInv
<1>1. PopupTyping'
  BY <1>0 DEF PopupTyping
<1>2. ReviewInv'
  BY <1>0 DEF ReviewInv, AnswersOfThisPreview
<1>3. JobInv'
  BY <1>0 DEF JobInv, Valid
<1>4. ShownInv'
  BY <1>0 DEF ShownInv
<1>5. SentInv'
  BY <1>0 DEF SentInv
<1>6. QED
  BY <1>1, <1>2, <1>3, <1>4, <1>5 DEF PopupInv

LEMMA ApprovedFact ==
    ASSUME op \in OpShape
    PROVE  /\ DOMAIN op.approved \subseteq Questions
           /\ \A q \in DOMAIN op.approved : op.approved[q] \in Texts
<1>1. PICK S \in SUBSET Questions : op.approved \in [S -> Texts]
  BY DEF OpShape
<1>2. QED
  BY <1>1

LEMMA WriteFact ==
    ASSUME PopupTyping, NEW qs, qs \subseteq DOMAIN op.approved, Write(qs)
    PROVE  /\ page' \in DocumentShape /\ wrote' \subseteq Questions /\ wrote' = wrote \union qs
           /\ page'.document = page.document
           /\ \A q \in Questions \ qs : page'.value[q] = page.value[q]
<1> DEFINE value == [q \in Questions |-> IF q \in qs THEN op.approved[q] ELSE page.value[q]]
<1>1. page \in DocumentShape /\ op \in OpShape /\ wrote \subseteq Questions
  BY DEF PopupTyping
<1>2. /\ qs \subseteq Questions /\ value \in [Questions -> Texts \union {"own"}]
      /\ \A q \in Questions \ qs : value[q] = page.value[q]
  BY <1>1, ApprovedFact DEF DocumentShape
<1>3. page' = [page EXCEPT !.value = value] /\ wrote' = wrote \union qs
  BY DEF Write
<1> HIDE DEF value
<1>4. page' \in DocumentShape /\ page'.value = value /\ page'.document = page.document
  BY <1>1, <1>2, <1>3 DEF DocumentShape
<1>5. QED
  BY <1>1, <1>2, <1>3, <1>4

LEMMA InternStep ==
    ASSUME PopupInv, DispatchWidgets \/ FillInTurn
    PROVE  PopupInv'
<1>0. PopupTyping /\ FillInv /\ op \in OpShape /\ page \in DocumentShape /\ wrote \subseteq Questions
  BY DEF PopupInv, PopupTyping
<1>1. CASE DispatchWidgets
  <2> DEFINE l == DOMAIN op.approved \intersect Widgets
  <2>1. /\ op.kind = "fill" /\ op.stage = "between" /\ op' = [op EXCEPT !.stage = "page", !.left = l]
        /\ UNCHANGED <<tool, turns, session, saved, page, review, editors, job, told, wrote, sent>>
    BY <1>1 DEF DispatchWidgets
  <2>2. l \in SUBSET Questions /\ l \subseteq DOMAIN op.approved
    BY <1>0, ApprovedFact
  <2> HIDE DEF l
  <2>3. /\ op' \in OpShape /\ op'.stage = "page" /\ op'.approved = op.approved /\ op'.left = l
        /\ op'.kind = op.kind /\ op'.by = op.by /\ op'.review = op.review
        /\ op'.opened = op.opened /\ op'.filled = op.filled /\ op'.result = op.result
    BY <1>0, <2>1, <2>2 DEF OpShape
  <2>4. FillInv'
    BY <1>0, <2>1, <2>2, <2>3 DEF FillInv, ToldTruly
  <2>5. QED
    BY <1>0, <2>1, <2>3, <2>4, FillGoesOn
<1>2. CASE FillInTurn
  <2> DEFINE free == {q \in op.left : page.value[q] = "empty" /\ Same(q)}
             res == IF op.left \intersect Widgets = {} /\ DOMAIN op.approved \intersect Widgets # {}
                    THEN "first" ELSE "report"
             done == op.filled \union free
  <2>1. /\ tool = "internsg" /\ op.kind = "fill" /\ op.stage = "page" /\ Write(free)
        /\ op' = [op EXCEPT !.stage = "report", !.left = {}, !.filled = done, !.result = res]
        /\ UNCHANGED <<tool, turns, session, saved, review, editors, job, told, sent>>
    BY <1>0, <1>2 DEF FillInTurn, Injected, OpShape
  <2>2. op.left \subseteq DOMAIN op.approved /\ op.opened = {} /\ op.filled \subseteq wrote
    BY <1>0, <2>1 DEF FillInv, ToldTruly
  <2>3. free \subseteq DOMAIN op.approved /\ free \subseteq Questions /\ res \in {"first", "report"}
    BY <1>0, <2>2, ApprovedFact
  <2> HIDE DEF free, res
  <2>4. page' \in DocumentShape /\ wrote' \subseteq Questions /\ wrote' = wrote \union free
    BY <1>0, <2>1, <2>3, WriteFact
  <2>5. done \in SUBSET Questions /\ done \subseteq wrote'
    BY <1>0, <2>2, <2>3, <2>4
  <2> HIDE DEF done
  <2>6. /\ op' \in OpShape /\ op'.stage = "report" /\ op'.approved = op.approved /\ op'.left = {}
        /\ op'.kind = op.kind /\ op'.by = op.by /\ op'.review = op.review
        /\ op'.opened = op.opened /\ op'.filled = done /\ op'.result = res
    BY <1>0, <2>1, <2>3, <2>5 DEF OpShape
  <2>7. FillInv'
    BY <1>0, <2>1, <2>2, <2>3, <2>5, <2>6 DEF FillInv, ToldTruly
  <2>8. QED
    BY <2>1, <2>4, <2>6, <2>7, FillGoesOn
<1>3. QED
  BY <1>1, <1>2

LEMMA CheckStep ==
    ASSUME PopupInv, Validate \/ ReportFill \/ Lose
    PROVE  PopupInv'
<1>0. PopupTyping /\ FillInv /\ op \in OpShape /\ page \in DocumentShape /\ wrote \subseteq Questions
  BY DEF PopupInv, PopupTyping
<1>1. /\ op.kind = "fill" /\ op.stage \in {"page", "writing"}
      /\ UNCHANGED <<tool, turns, session, saved, page, review, editors, job, told, wrote, sent>>
  BY DEF Validate, ReportFill, Lose, Injected
<1>2. /\ op' \in OpShape /\ op'.approved = op.approved /\ op'.kind = op.kind /\ op'.by = op.by
      /\ op'.review = op.review /\ op'.left = op.left /\ op'.opened = op.opened
      /\ op'.filled \subseteq op.filled
      /\ \/ op'.stage = "writing" /\ op'.result = op.result /\ tool = "ats" /\ op.stage = "page"
         \/ op'.stage = "report" /\ op'.result = "rejected" /\ tool = "ats" /\ op.stage = "page"
         \/ op'.stage = "report" /\ op'.result \in {"report", "lost"}
  <2>1. CASE Validate
    <3>1. CASE Preflight
      <4>1. op' = [op EXCEPT !.stage = "writing"] /\ tool = "ats" /\ op.stage = "page"
        BY <2>1, <3>1 DEF Validate
      <4>2. QED
        BY <1>0, <4>1 DEF OpShape
    <3>2. CASE ~Preflight
      <4>1. /\ op' = [op EXCEPT !.stage = "report", !.result = "rejected"]
            /\ tool = "ats" /\ op.stage = "page"
        BY <2>1, <3>2 DEF Validate
      <4>2. QED
        BY <1>0, <4>1 DEF OpShape
    <3>3. QED
      BY <3>1, <3>2
  <2>2. CASE ReportFill
    <3> DEFINE f == {q \in op.filled : page.value[q] = op.approved[q]}
    <3>1. op' = [op EXCEPT !.stage = "report", !.result = "report", !.filled = f]
      BY <1>0, <2>2 DEF ReportFill, OpShape
    <3>2. f \subseteq op.filled /\ f \in SUBSET Questions
      BY <1>0 DEF OpShape
    <3> HIDE DEF f
    <3>3. QED
      BY <1>0, <3>1, <3>2 DEF OpShape
  <2>3. CASE Lose
    <3>1. op' = [op EXCEPT !.stage = "report", !.result = "lost"]
      BY <2>3 DEF Lose
    <3>2. QED
      BY <1>0, <3>1 DEF OpShape
  <2>4. QED
    BY <2>1, <2>2, <2>3
<1>3. FillInv'
  BY <1>0, <1>1, <1>2 DEF FillInv, ToldTruly
<1>4. QED
  BY <1>0, <1>1, <1>2, <1>3, FillGoesOn

\* One question is written, skipped or has its list opened.
LEMMA OneQuestionStep ==
    ASSUME PopupInv, NEW q \in Questions, FillNext(q) \/ Choose(q)
    PROVE  PopupInv'
<1>0. PopupTyping /\ FillInv /\ op \in OpShape /\ page \in DocumentShape /\ wrote \subseteq Questions
  BY DEF PopupInv, PopupTyping
<1>1. /\ tool = "ats" /\ op.kind = "fill" /\ op.stage = "writing"
      /\ UNCHANGED <<tool, turns, session, saved, review, editors, job, told, sent>>
  BY DEF FillNext, Choose, Injected
<1>2. /\ op.left \subseteq DOMAIN op.approved /\ op.opened \subseteq op.left \intersect Dropdowns
      /\ op.filled \subseteq wrote /\ op.left \in SUBSET Questions /\ op.filled \in SUBSET Questions
  BY <1>0, <1>1 DEF FillInv, ToldTruly, OpShape
<1>3. q \in op.left
  BY <1>2 DEF FillNext, Choose
<1>4. /\ page' \in DocumentShape /\ wrote' \subseteq Questions /\ wrote \subseteq wrote'
      /\ op' \in OpShape /\ op'.approved = op.approved /\ op'.kind = op.kind /\ op'.by = op.by
      /\ op'.review = op.review /\ op'.stage = op.stage /\ op'.result = op.result
      /\ op'.left \subseteq op.left /\ op'.filled \subseteq wrote'
      /\ op'.opened \subseteq op'.left \intersect Dropdowns
  <2> DEFINE left == op.left \ {q}
             more == op.filled \union {q}
             opened == {q}
  <2>1. left \in SUBSET Questions /\ more \in SUBSET Questions /\ opened \in SUBSET Questions
    BY <1>2
  <2>2. Write({q}) => /\ page' \in DocumentShape /\ wrote' \subseteq Questions
                      /\ wrote' = wrote \union {q}
    BY <1>0, <1>2, <1>3, WriteFact
  <2>3. CASE FillNext(q)
    <3>0. op.opened = {}
      BY <2>3 DEF FillNext
    <3>1. CASE op' = [op EXCEPT !.opened = {q}] /\ UNCHANGED <<page, wrote>> /\ q \in Dropdowns
      <4>1. op' = [op EXCEPT !.opened = opened] /\ opened \subseteq op.left \intersect Dropdowns
        BY <1>3, <3>1
      <4> HIDE DEF opened
      <4>2. op' \in OpShape /\ op'.approved = op.approved /\ op'.kind = op.kind /\ op'.by = op.by
            /\ op'.review = op.review /\ op'.stage = op.stage /\ op'.result = op.result
            /\ op'.left = op.left /\ op'.filled = op.filled /\ op'.opened = opened
        BY <1>0, <2>1, <4>1 DEF OpShape
      <4>3. QED
        BY <1>0, <1>2, <3>1, <4>1, <4>2
    <3>2. CASE Write({q}) /\ op' = [op EXCEPT !.left = @ \ {q}, !.filled = @ \union {q}]
      <4>1. op' = [op EXCEPT !.left = left, !.filled = more]
        BY <1>0, <3>2 DEF OpShape
      <4>2. more \subseteq wrote' /\ left \subseteq op.left
        BY <1>2, <2>2, <3>2
      <4> HIDE DEF left, more
      <4>3. op' \in OpShape /\ op'.approved = op.approved /\ op'.kind = op.kind /\ op'.by = op.by
            /\ op'.review = op.review /\ op'.stage = op.stage /\ op'.result = op.result
            /\ op'.left = left /\ op'.filled = more /\ op'.opened = op.opened
        BY <1>0, <2>1, <4>1 DEF OpShape
      <4>4. QED
        BY <1>2, <2>2, <3>0, <3>2, <4>2, <4>3
    <3>3. CASE op' = [op EXCEPT !.left = @ \ {q}] /\ UNCHANGED <<page, wrote>>
      <4>1. op' = [op EXCEPT !.left = left] /\ left \subseteq op.left
        BY <1>0, <3>3 DEF OpShape
      <4> HIDE DEF left
      <4>2. op' \in OpShape /\ op'.approved = op.approved /\ op'.kind = op.kind /\ op'.by = op.by
            /\ op'.review = op.review /\ op'.stage = op.stage /\ op'.result = op.result
            /\ op'.left = left /\ op'.filled = op.filled /\ op'.opened = op.opened
        BY <1>0, <2>1, <4>1 DEF OpShape
      <4>3. QED
        BY <1>0, <1>2, <3>0, <3>3, <4>1, <4>2
    <3>4. QED
      BY <2>3, <3>1, <3>2, <3>3 DEF FillNext
  <2>4. CASE Choose(q)
    <3> DEFINE ok == page.url = "form" /\ Same(q)
               f == IF ok THEN more ELSE op.filled
               none == {}
    <3>1. /\ op' = [op EXCEPT !.opened = none, !.left = left, !.filled = f]
          /\ IF ok THEN Write({q}) ELSE UNCHANGED <<page, wrote>>
      BY <1>0, <2>4 DEF Choose, OpShape
    <3>2. /\ page' \in DocumentShape /\ wrote' \subseteq Questions /\ wrote \subseteq wrote'
          /\ f \in SUBSET Questions /\ f \subseteq wrote'
      BY <1>0, <1>2, <2>1, <2>2, <3>1
    <3>3. none \in SUBSET Questions /\ left \subseteq op.left
      OBVIOUS
    <3> HIDE DEF f, left, none
    <3>4. op' \in OpShape /\ op'.approved = op.approved /\ op'.kind = op.kind /\ op'.by = op.by
          /\ op'.review = op.review /\ op'.stage = op.stage /\ op'.result = op.result
          /\ op'.left = left /\ op'.filled = f /\ op'.opened = none
      BY <1>0, <2>1, <3>1, <3>2, <3>3 DEF OpShape
    <3>5. QED
      BY <3>2, <3>3, <3>4 DEF none
  <2>5. QED
    BY <2>3, <2>4
<1>5. FillInv'
  BY <1>0, <1>1, <1>2, <1>4 DEF FillInv, ToldTruly
<1>6. QED
  BY <1>0, <1>1, <1>4, <1>5, FillGoesOn

\* The popup is idle again, with what it says of the last fill.
LEMMA OpOver ==
    ASSUME PopupInv, op' = NoOp,
           job' \in [Previews -> JobShape], NextPreview' = NextPreview,
           \A p \in Previews :
              /\ job'[p].stage # "over" => job'[p].status = "preparing"
              /\ job'[p].answers \subseteq job'[p].fields
              /\ ~(Valid(p)' /\ job'[p].awaited),
           told' \in {"idle", "waiting", "filling", "complete", "rejected", "uncertain", "not sent"},
           told' \in {"rejected", "not sent"} => wrote = {},
           editors' \in EditorsShape, editors'.of = editors.of, editors.of = 0 => editors' = editors,
           \A q \in Questions : /\ editors'.at[q].from \in {0, editors.at[q].from}
                                /\ editors.at[q].blocked => editors'.at[q].blocked,
           UNCHANGED <<tool, turns, session, saved, page, review, wrote, sent>>
    PROVE  PopupInv'
<1>0. PopupTyping /\ ReviewInv /\ SentInv
  BY DEF PopupInv
<1>1. PopupTyping'
  BY <1>0, PopupNulls DEF PopupTyping
<1>2. ReviewInv'
  BY <1>0, PopupNullFields DEF ReviewInv, AnswersOfThisPreview
<1>3. JobInv'
  BY PopupNullFields DEF JobInv
<1>4. FillInv' /\ ShownInv'
  BY PopupNullFields DEF FillInv, ShownInv, ToldTruly
<1>5. SentInv'
  BY <1>0 DEF SentInv
<1>6. QED
  BY <1>1, <1>2, <1>3, <1>4, <1>5 DEF PopupInv

LEMMA ReadReportStep ==
    ASSUME PopupInv, ReadReport
    PROVE  PopupInv'
<1>0. PopupTyping /\ ReviewInv /\ JobInv /\ FillInv /\ op \in OpShape /\ page \in DocumentShape
      /\ wrote \subseteq Questions
  BY DEF PopupInv, PopupTyping
<1>1. /\ op.kind = "fill" /\ op.stage = "report"
      /\ UNCHANGED <<tool, turns, session, saved, page, review, job, wrote, sent>>
  BY DEF ReadReport
<1>2. CASE SameSession /\ op.result = "first" /\ review = op.review
  <2>1. op' = [op EXCEPT !.stage = "between"] /\ UNCHANGED <<told, editors>>
    BY <1>2 DEF ReadReport
  <2>2. op' \in OpShape /\ op'.approved = op.approved /\ op'.kind = op.kind /\ op'.by = op.by
        /\ op'.review = op.review /\ op'.stage = "between" /\ op'.result = op.result
        /\ op'.left = op.left /\ op'.filled = op.filled /\ op'.opened = op.opened
    BY <1>0, <2>1 DEF OpShape
  <2>3. FillInv'
    BY <1>0, <1>1, <1>2, <2>1, <2>2 DEF FillInv, ToldTruly
  <2>4. QED
    BY <1>0, <1>1, <2>1, <2>2, <2>3, FillGoesOn
<1>3. CASE ~(SameSession /\ op.result = "first" /\ review = op.review)
  <2> DEFINE gone == [Editor("empty", 0) EXCEPT !.blocked = TRUE]
             at == [q \in Questions |-> IF q \in op.filled THEN gone ELSE editors.at[q]]
  <2>1. /\ op' = NoOp
        /\ told' = IF SameSession THEN Outcome ELSE told
        /\ \/ editors' = editors
           \/ editors.of = op.review.id /\ editors' = [editors EXCEPT !.at = at]
    BY <1>3 DEF ReadReport, OpEnds
  <2>2. /\ told' \in {"idle", "waiting", "filling", "complete", "rejected", "uncertain", "not sent"}
        /\ told' \in {"rejected", "not sent"} => wrote = {}
    BY <1>0, <1>1, <2>1 DEF FillInv, PopupTyping, Outcome
  <2>3. gone \in EditorShape /\ gone.from = 0 /\ gone.blocked = TRUE
    <3> DEFINE text == "empty"
               from == 0
    <3>1. text \in Texts /\ from \in Nat /\ gone = [Editor(text, from) EXCEPT !.blocked = TRUE]
      BY DEF Texts
    <3> HIDE DEF text, from, gone
    <3>2. Editor(text, from) \in EditorShape /\ Editor(text, from).from = from
      BY <3>1, EditorFact
    <3>3. gone \in EditorShape /\ gone.from = from /\ gone.blocked = TRUE
      BY <3>1, <3>2 DEF EditorShape
    <3>4. QED
      BY <3>3 DEF from
  <2>4. editors \in EditorsShape /\ editors.at \in [Questions -> EditorShape]
    BY <1>0 DEF PopupTyping, EditorsShape
  <2> HIDE DEF gone
  <2>5. /\ at \in [Questions -> EditorShape]
        /\ \A q \in Questions : /\ at[q].from \in {0, editors.at[q].from}
                                /\ editors.at[q].blocked => at[q].blocked
    BY <2>3, <2>4
  <2> HIDE DEF at
  <2>6. /\ editors' \in EditorsShape /\ editors'.of = editors.of
        /\ editors.of = 0 => editors' = editors
        /\ \A q \in Questions : /\ editors'.at[q].from \in {0, editors.at[q].from}
                                /\ editors.at[q].blocked => editors'.at[q].blocked
    <3>1. CASE editors' = editors
      BY <2>4, <3>1
    <3>2. CASE editors.of = op.review.id /\ editors' = [editors EXCEPT !.at = at]
      <4>1. editors.of # 0
        BY <1>0, <1>1, <3>2, PopupNulls DEF FillInv
      <4>2. editors' \in EditorsShape /\ editors'.of = editors.of /\ editors'.at = at
        BY <2>4, <2>5, <3>2 DEF EditorsShape
      <4>3. QED
        BY <2>5, <4>1, <4>2
    <3>3. QED
      BY <2>1, <3>1, <3>2
  <2>7. /\ job' \in [Previews -> JobShape] /\ NextPreview' = NextPreview
        /\ \A p \in Previews :
              /\ job'[p].stage # "over" => job'[p].status = "preparing"
              /\ job'[p].answers \subseteq job'[p].fields
              /\ ~(Valid(p)' /\ job'[p].awaited)
    BY <1>0, <1>1 DEF JobInv, Valid, PopupTyping, NextPreview
  <2>8. QED
    BY <1>1, <2>1, <2>2, <2>6, <2>7, OpOver
<1>4. QED
  BY <1>2, <1>3

LEMMA FailStep ==
    ASSUME PopupInv, Fail
    PROVE  PopupInv'
<1>0. PopupTyping /\ ReviewInv /\ JobInv /\ FillInv
  BY DEF PopupInv
<1>1. /\ op.kind = "load" \/ (op.kind = "fill" /\ op.stage \in {"wait", "profile", "bind", "between"})
      /\ op' = NoOp
      /\ told' = IF op.kind = "fill" /\ SameSession
                 THEN IF op.stage = "between" THEN "uncertain" ELSE "not sent" ELSE told
      /\ job' = IF op.kind = "fill" /\ op.stage = "wait" /\ SameSession THEN JobsCancelled ELSE job
      /\ UNCHANGED <<tool, turns, session, saved, page, review, editors, wrote, sent>>
  BY DEF Fail, OpEnds
<1>2. /\ told' \in {"idle", "waiting", "filling", "complete", "rejected", "uncertain", "not sent"}
      /\ told' \in {"rejected", "not sent"} => wrote = {}
  BY <1>0, <1>1 DEF FillInv, ToldTruly, PopupTyping
<1>3. /\ job' \in [Previews -> JobShape] /\ NextPreview' = NextPreview
      /\ \A p \in Previews :
            /\ job'[p].stage # "over" => job'[p].status = "preparing"
            /\ job'[p].answers \subseteq job'[p].fields
            /\ ~(Valid(p)' /\ job'[p].awaited)
  <2>1. CASE op.kind = "fill" /\ op.stage = "wait" /\ SameSession
    BY <1>0, <1>1, <2>1, CancelledFact DEF Valid
  <2>2. CASE ~(op.kind = "fill" /\ op.stage = "wait" /\ SameSession)
    <3>1. job' = job
      BY <1>1, <2>2
    <3>2. ASSUME NEW p \in Previews, Valid(p), job[p].awaited PROVE FALSE
      <4>1. op.kind = "fill" /\ op.stage = "wait"
        BY <1>0, <3>2 DEF JobInv
      <4>2. review.id = p /\ review # NoReview
        BY <3>2, PopupNulls DEF Valid
      <4>3. review.by = session /\ review = op.review /\ op.review.by = op.by
        BY <1>0, <4>1, <4>2 DEF ReviewInv, FillInv
      <4>4. QED
        BY <2>2, <4>1, <4>3 DEF SameSession
    <3>3. \A p \in Previews : Valid(p)' <=> Valid(p)
      BY <1>1, <3>1 DEF Valid
    <3>4. QED
      BY <1>0, <3>1, <3>2, <3>3 DEF JobInv, PopupTyping, NextPreview
  <2>3. QED
    BY <2>1, <2>2
<1>4. editors' \in EditorsShape
  BY <1>0, <1>1 DEF PopupTyping
<1>5. QED
  BY <1>1, <1>2, <1>3, <1>4, OpOver

LEMMA PopupStepInv == PopupInv /\ [PopupNext]_popupVars => PopupInv'
<1> SUFFICES ASSUME PopupInv, [PopupNext]_popupVars PROVE PopupInv'
  OBVIOUS
<1>1. CASE \E q \in Questions : AnswerOnWebsite(q) \/ RenderAnew(q)
  BY <1>1, AroundStep
<1>2. CASE \E q \in Questions : Edit(q)
  BY <1>2, EditStep
<1>3. CASE Leave \/ Reload \/ SaveProfile
  BY <1>3, AroundStep
<1>4. CASE Reconnect \/ ChangePermissions
  BY <1>4, ReconnectStep
<1>5. CASE StartOther \/ EndOther
  BY <1>5, OtherStep
<1>6. CASE StartLoad \/ LoadStep
  BY <1>6, StartLoadStep, ReadStep, ShowStep DEF LoadStep
<1>7. CASE StartFill
  BY <1>7, StartFillStep
<1>8. CASE FillStep
  BY <1>8, MergeStep, CheckProfileStep, DispatchStep, InternStep, CheckStep, ReadReportStep,
     FailStep, OneQuestionStep DEF FillStep
<1>9. CASE \E r \in Previews : JobStep(r)
  BY <1>9, JobAsksStep, JobEndsStep DEF JobStep
<1>10. CASE UNCHANGED popupVars
  <2>1. /\ UNCHANGED <<tool, session, review, editors, job, op, told, wrote, sent>>
        /\ UNCHANGED <<saved, page, turns>>
    BY <1>10 DEF popupVars
  <2>2. PopupTyping
    BY DEF PopupInv
  <2>3. PopupTyping'
    BY <2>1, <2>2 DEF PopupTyping
  <2>4. QED
    BY <2>1, <2>3, PageAlone
<1>11. QED
  BY <1>1, <1>2, <1>3, <1>4, <1>5, <1>6, <1>7, <1>8, <1>9, <1>10 DEF PopupNext, OperationStep

LEMMA PopupFact == PopupInv =>
    /\ PopupTypes /\ AnswersOfThisPreview /\ SentAsShown /\ OneAttemptPerQuestion /\ ToldTruly
<1> SUFFICES ASSUME PopupInv
    PROVE PopupTypes /\ AnswersOfThisPreview /\ SentAsShown /\ OneAttemptPerQuestion /\ ToldTruly
  OBVIOUS
<1>0. PopupTyping /\ ReviewInv /\ FillInv /\ ShownInv /\ SentInv
  BY DEF PopupInv
<1>1. session \in 1..MaxTurns + 1 /\ saved \in 0..MaxTurns /\ turns \in 0..MaxTurns
  <2>1. /\ session \in Nat \ {0} /\ saved \in Nat /\ turns \in Nat
        /\ session <= turns + 1 /\ saved <= turns /\ turns <= MaxTurns
    BY <1>0 DEF PopupTyping
  <2>2. MaxTurns \in Nat
    BY PopupConstants
  <2>3. QED
    BY <2>1, <2>2
<1>2. \A q \in Questions : editors.at[q].text \in Texts /\ page.value[q] \in Texts \union {"own"}
  BY <1>0 DEF PopupTyping, EditorsShape, EditorShape, DocumentShape
<1>3. PopupTypes
  BY <1>0, <1>1, <1>2 DEF PopupTypes, PopupTyping, ReviewInv, FillInv
<1>4. AnswersOfThisPreview /\ ToldTruly
  BY <1>0 DEF ReviewInv, FillInv
<1>5. SentAsShown
  BY <1>0 DEF ShownInv, SentAsShown
<1>6. OneAttemptPerQuestion
  BY <1>0 DEF SentInv, OneAttemptPerQuestion
<1>7. QED
  BY <1>3, <1>4, <1>5, <1>6

LEMMA WebsiteKeptStep ==
    ASSUME PopupInv, PopupNext, NEW q \in Questions, page'.document = page.document,
           page.value[q] = "own", q \notin op.opened
    PROVE  page'.value[q] = "own"
<1>0. PopupTyping /\ FillInv /\ page \in DocumentShape /\ op \in OpShape
  BY DEF PopupInv, PopupTyping
<1>1. CASE page' = page
  BY <1>1
<1>2. CASE \E p \in Questions : AnswerOnWebsite(p) \/ RenderAnew(p)
  BY <1>0, <1>2 DEF AnswerOnWebsite, RenderAnew, DocumentShape
<1>3. CASE Leave
  BY <1>0, <1>3 DEF Leave, DocumentShape
<1>4. CASE Reload
  <2> DEFINE d == page.document + 1
  <2>1. page' = NewPage(d) /\ page.document \in Nat
    BY <1>0, <1>4 DEF Reload, DocumentShape
  <2>2. page'.document = d
    BY <2>1 DEF NewPage
  <2>3. d # page.document
    BY <2>1
  <2>4. QED
    BY <2>2, <2>3
<1>5. CASE FillInTurn
  <2> DEFINE free == {p \in op.left : page.value[p] = "empty" /\ Same(p)}
  <2>1. Write(free) /\ op.kind = "fill" /\ op.stage = "page" /\ q \notin free
    BY <1>5 DEF FillInTurn, Injected
  <2>2. free \subseteq DOMAIN op.approved
    BY <1>0, <2>1 DEF FillInv
  <2> HIDE DEF free
  <2>3. QED
    BY <1>0, <2>1, <2>2, WriteFact
<1>6. ASSUME NEW p \in Questions, FillNext(p) \/ Choose(p), page' # page
      PROVE  page'.value[q] = "own"
  <2>1. Write({p}) /\ op.kind = "fill" /\ op.stage = "writing"
    BY <1>6 DEF FillNext, Choose, Injected
  <2>2. p \in op.left
    BY <1>0, <1>6 DEF FillNext, Choose, FillInv
  <2>3. {p} \subseteq DOMAIN op.approved
    BY <1>0, <2>1, <2>2 DEF FillInv
  <2>4. q # p
    BY <1>6 DEF FillNext, Choose, Free
  <2>5. QED
    BY <1>0, <2>1, <2>3, <2>4, WriteFact
<1>7. CASE SaveProfile \/ Reconnect \/ ChangePermissions \/ StartOther \/ EndOther \/ StartLoad
           \/ LoadStep \/ StartFill \/ \E p \in Questions : Edit(p)
  <2>1. page' = page
    BY <1>7 DEF SaveProfile, Reconnect, ChangePermissions, StartOther, EndOther, StartLoad, LoadStep,
                Inspect, LoadProfile, Show, StartFill, Edit
  <2>2. QED
    BY <1>1, <2>1
<1>8. CASE Merge \/ CheckProfile \/ Dispatch \/ DispatchWidgets \/ Validate \/ ReportFill \/ Lose
           \/ ReadReport \/ Fail
  <2>1. page' = page
    BY <1>8 DEF Merge, CheckProfile, Dispatch, DispatchWidgets, Validate, ReportFill, Lose, ReadReport,
                Fail
  <2>2. QED
    BY <1>1, <2>1
<1>9. CASE \E r \in Previews : JobStep(r)
  <2>1. page' = page
    BY <1>9 DEF JobStep, JobAnswered, Reread, Apply, TimeOut
  <2>2. QED
    BY <1>1, <2>1
<1>10. QED
  BY <1>1, <1>2, <1>3, <1>4, <1>5, <1>6, <1>7, <1>8, <1>9 DEF PopupNext, OperationStep, FillStep

\* An answer that changes while the operation stays is the user's own, or a job's.
LEMMA EditsKeptStep ==
    ASSUME PopupInv, PopupNext, NEW q \in Questions, editors'.of = editors.of, op' = op,
           editors.at[q] # editors'.at[q]
    PROVE  IF editors'.at[q].edited THEN ~Busy
           ELSE /\ editors.at[q].text = "empty" /\ ~editors.at[q].edited
                /\ (Busy /\ editors'.at[q].text = "ai") => op.pending
<1>0. PopupTyping /\ ReviewInv /\ JobInv /\ FillInv /\ op \in OpShape /\ editors \in EditorsShape
  BY DEF PopupInv, PopupTyping
<1>1. CASE \E p \in Questions : Edit(p)
  <2>1. PICK p \in Questions : Edit(p)
    BY <1>1
  <2>2. ~Busy /\ q = p /\ editors'.at[q].edited = TRUE
    <3>1. PICK text \in {"user", "empty"} : editors' = [editors EXCEPT
              !.at[p].text = text, !.at[p].edited = TRUE, !.at[p].from = 0]
      BY <2>1 DEF Edit
    <3>2. editors'.at = [editors.at EXCEPT ![p] =
              [editors.at[p] EXCEPT !.text = text, !.edited = TRUE, !.from = 0]]
      BY <1>0, <3>1 DEF EditorsShape
    <3>3. editors.at \in [Questions -> EditorShape]
      BY <1>0 DEF EditorsShape
    <3>4. q = p
      BY <3>2, <3>3
    <3>5. editors'.at[p].edited = TRUE
      BY <3>2, <3>3 DEF EditorShape
    <3>6. QED
      BY <2>1, <3>4, <3>5 DEF Edit
  <2>3. QED
    BY <2>2
<1>2. CASE \E r \in Previews : Apply(r) \/ TimeOut(r)
  <2>1. PICK r \in Previews : Apply(r) \/ TimeOut(r)
    BY <1>2
  <2>2. /\ Patches(r)
        /\ editors'.at[q].text = "ai" => MayAdd(r)
    BY <1>0, <2>1, JobPatches
  <2>3. Valid(r) /\ Patchable(q) /\ ~editors'.at[q].edited
    BY <2>2 DEF Patches
  <2>4. Busy /\ MayAdd(r) => op.pending
    BY <1>0, <2>3 DEF MayAdd, JobInv
  <2>5. QED
    BY <2>2, <2>3, <2>4 DEF Patchable
<1>3. CASE Reconnect \/ ChangePermissions \/ StartLoad
  <2>1. editors' = NoEditors
    BY <1>3 DEF Reconnect, ChangePermissions, StartLoad, Cleared
  <2>2. editors = NoEditors
    BY <1>0, <2>1, PopupNulls DEF ReviewInv
  <2>3. QED
    BY <2>1, <2>2
<1>4. CASE Show \/ Dispatch \/ CheckProfile \/ ReadReport
  <2>1. CASE Show \/ CheckProfile
    <3>1. op' = NoOp /\ op.kind # "none"
      BY <2>1 DEF Show, CheckProfile, OpEnds, Cleared
    <3>2. QED
      BY <3>1, PopupNullFields
  <2>2. CASE Dispatch
    <3>1. op.stage = "bind" /\ op' = [op EXCEPT !.stage = "page", !.left = FirstScript]
      BY <2>2 DEF Dispatch
    <3>2. op'.stage = "page"
      BY <1>0, <3>1 DEF OpShape
    <3>3. QED
      BY <3>1, <3>2
  <2>3. CASE ReadReport
    <3>1. op' = NoOp /\ op.kind = "fill"
      BY <2>3 DEF ReadReport, OpEnds
    <3>2. QED
      BY <3>1, PopupNullFields
  <2>4. QED
    BY <1>4, <2>1, <2>2, <2>3
<1>5. CASE \E p \in Questions : AnswerOnWebsite(p) \/ RenderAnew(p)
  BY <1>5 DEF AnswerOnWebsite, RenderAnew
<1>6. CASE Leave \/ Reload \/ SaveProfile \/ StartOther \/ EndOther \/ StartFill \/ Inspect \/ LoadProfile
  BY <1>6 DEF Leave, Reload, SaveProfile, StartOther, EndOther, StartFill, Inspect, LoadProfile
<1>7. CASE \/ Merge \/ DispatchWidgets \/ FillInTurn \/ Validate \/ ReportFill \/ Lose \/ Fail
           \/ \E p \in Questions : FillNext(p) \/ Choose(p)
  BY <1>7 DEF Merge, DispatchWidgets, FillInTurn, Validate, ReportFill, Lose, Fail, FillNext, Choose
<1>8. CASE \E r \in Previews : (\E qs \in SUBSET job[r].fields : JobAnswered(r, qs)) \/ Reread(r)
  BY <1>8 DEF JobAnswered, Reread
<1>9. QED
  BY <1>1, <1>2, <1>3, <1>4, <1>5, <1>6, <1>7, <1>8
     DEF PopupNext, OperationStep, LoadStep, FillStep, JobStep
-------------------------------------------------------------------------------
(* The browser *)

LEMMA PopupPart == [ExtensionNext]_extensionMCVars => [PopupNext]_popupVars
  BY DEF ExtensionNext, extensionMCVars

LEMMA PopupStarts == ExtensionInit => PopupInv
  BY PopupInitInv DEF ExtensionInit, AtPopup

\* What the popup promises of a fill: an answer is shown with the preview it was asked
\* for, what is sent is what is shown, once, and what is told of it is true.
FillIsSafe ==
    PopupTypes /\ AnswersOfThisPreview /\ SentAsShown /\ OneAttemptPerQuestion /\ ToldTruly

\* A late answer is shown only with the preview it was prepared for (popup.js:149), a
\* fill sends once what it shows, and its outcome is told truly (popup.js:618).
THEOREM FillIsSafeHolds == (PopupSpec => []FillIsSafe) /\ (ExtensionSpec => []FillIsSafe)
<1>1. PopupInv => FillIsSafe
  BY PopupFact DEF FillIsSafe
<1>2. PopupSpec => []FillIsSafe
  BY <1>1, PopupInitInv, PopupStepInv, PTL DEF PopupSpec
<1>3. ExtensionSpec => []FillIsSafe
  BY <1>1, PopupPart, PopupStarts, PopupStepInv, PTL DEF ExtensionSpec
<1>4. QED
  BY <1>2, <1>3

\* One step of WebsiteKept and of EditsKept.
WebsiteStays ==
    \A q \in Questions :
        (page'.document = page.document /\ page.value[q] = "own" /\ q \notin op.opened)
            => page'.value[q] = "own"
EditsStay ==
    \A q \in Questions :
        LET before == editors.at[q]
            after == editors'.at[q]
        IN  (editors'.of = editors.of /\ op' = op /\ before # after) =>
                IF after.edited THEN ~Busy
                ELSE /\ before.text = "empty" /\ ~before.edited
                     /\ (Busy /\ after.text = "ai") => op.pending

LEMMA RespectStep == PopupInv /\ [PopupNext]_popupVars => [WebsiteStays /\ EditsStay]_popupVars
<1> SUFFICES ASSUME PopupInv, PopupNext
             PROVE  WebsiteStays /\ EditsStay
  OBVIOUS
<1>1. WebsiteStays
  BY WebsiteKeptStep DEF WebsiteStays
<1>2. EditsStay
  BY EditsKeptStep DEF EditsStay
<1>3. QED
  BY <1>1, <1>2

\* An answer of the user on the website is not overwritten (ats-page.js:700).
THEOREM WebsiteKeptHolds == (PopupSpec => WebsiteKept) /\ (ExtensionSpec => WebsiteKept)
<1>1. PopupSpec => [][WebsiteStays]_popupVars
  BY PopupInitInv, PopupStepInv, RespectStep, PTL DEF PopupSpec
<1>2. ExtensionSpec => [][WebsiteStays]_popupVars
  BY PopupPart, PopupStarts, PopupStepInv, RespectStep, PTL DEF ExtensionSpec
<1>3. QED
  BY <1>1, <1>2 DEF WebsiteKept, WebsiteStays

\* No job changes an answer the user has edited, or beside another operation than
\* the fill that awaits it (popup.js:149).
THEOREM EditsKeptHolds == (PopupSpec => EditsKept) /\ (ExtensionSpec => EditsKept)
<1>1. PopupSpec => [][EditsStay]_popupVars
  BY PopupInitInv, PopupStepInv, RespectStep, PTL DEF PopupSpec
<1>2. ExtensionSpec => [][EditsStay]_popupVars
  BY PopupPart, PopupStarts, PopupStepInv, RespectStep, PTL DEF ExtensionSpec
<1>3. QED
  BY <1>1, <1>2 DEF EditsKept, EditsStay

BrowserInv == PopupInv /\ BridgeInv /\ PageInv

LEMMA PartsStep ==
    [ExtensionNext]_extensionMCVars =>
        [PopupNext]_popupVars /\ [BridgeNext]_bridgeVars /\ [FormPageNext]_formVars
  BY DEF ExtensionNext, extensionMCVars

LEMMA BrowserStarts == ExtensionInit => BrowserInv
<1>1. ExtensionInit => BridgeInit /\ FormInit
  BY DEF ExtensionInit, AtForm
<1>2. QED
  BY <1>1, PopupStarts, BridgeInitInv, PageInitInv DEF BrowserInv

LEMMA BrowserStepInv == BrowserInv /\ [ExtensionNext]_extensionMCVars => BrowserInv'
  BY PartsStep, PopupStepInv, BridgeStepInv, PageStepInv DEF BrowserInv

\* Late answers, fills and reports stay with the preview, approval and outcome they are of
\* (popup.js:149, popup.js:618, application-bridge.js:195), and a record is what its
\* account saw and confirmed, also after a save that timed out (ApplicationFormPage.tsx:228).
THEOREM FillsAreSafeHolds == ExtensionSpec => []FillsAreSafe
<1>1. BrowserInv => FillsAreSafe
  BY PopupFact, BridgeFact, PageFact DEF BrowserInv, FillsAreSafe
<1>2. QED
  BY <1>1, BrowserStarts, BrowserStepInv, PTL DEF ExtensionSpec

\* What the user wrote on a website, in the popup or in a record stays, nothing is written
\* after the page gave up (ats-page.js:700), and no code is exchanged after its login
\* ended (connection.js:25).
THEOREM StepsAreRespectfulHolds == ExtensionSpec => StepsAreRespectful
<1>1. ExtensionSpec => [][NothingMore]_bridgeVars
  BY BrowserStarts, BrowserStepInv, PartsStep, NothingMoreStep, PTL DEF ExtensionSpec, BrowserInv
<1>2. ExtensionSpec => [][FormStays]_bridgeVars
  BY BrowserStarts, BrowserStepInv, PartsStep, FormStaysStep, PTL DEF ExtensionSpec, BrowserInv
<1>3. ExtensionSpec => [][RecordKept]_record
  BY BrowserStarts, BrowserStepInv, PartsStep, RecordKeptStep, PTL DEF ExtensionSpec, BrowserInv
<1>4. ExtensionSpec => NothingAfterWaiting /\ FormIsRespected /\ RecordStays
  BY <1>1, <1>2, <1>3
  DEF NothingAfterWaiting, NothingMore, FormIsRespected, FormStays, RecordStays, RecordKept
<1>5. QED
  BY <1>4, WebsiteKeptHolds, EditsKeptHolds, ExchangesAreTimelyHolds DEF StepsAreRespectful
-------------------------------------------------------------------------------
(* A fill of the popup as OneFill has it *)

\* Of a fill under way the popup has told nothing yet.
NothingTold == op.kind = "fill" => told \in {"idle", "waiting", "filling"}

\* A step of the popup is one of its fill, or none, and tells nothing early.
FillMoves == NothingTold' /\ [PopupPromise!Next]_<<FillStage, FillDue, wrote, FillSays>>

Early == {"wait", "profile", "bind"}

\* What a fill has to write, by its stage.
LEMMA FillView ==
    ASSUME PopupInv
    PROVE  /\ op \in OpShape
           /\ op.kind # "fill" => FillStage = "over" /\ FillDue = {}
           /\ op.kind = "fill" /\ op.stage \in Early => FillStage = "approved" /\ FillDue = {}
           /\ op.kind = "fill" /\ op.stage \notin Early => FillStage = "sent" /\ op.left \subseteq FillDue
           /\ FillDue \in SUBSET Questions
           /\ told \in {"idle", "waiting", "filling"} => FillSays = "nothing"
<1>1. op \in OpShape
  BY DEF PopupInv, PopupTyping
<1>2. DOMAIN op.approved \subseteq Questions
  BY <1>1, ApprovedFact
<1>3. FillDue \in SUBSET Questions
  BY <1>1, <1>2 DEF FillDue, OpShape
<1>4. QED
  BY <1>1, <1>3 DEF FillStage, FillDue, FillSays, Early

\* Steps that leave the operation and what is told alone.
LEMMA FillUntouched ==
    ASSUME NothingTold, UNCHANGED <<tool, op, told, wrote>>
    PROVE  FillMoves
  BY DEF FillMoves, NothingTold, FillStage, FillDue, FillSays

\* A step of the script, or of the popup beside it, that tells nothing.
LEMMA FillWrites ==
    ASSUME PopupInv, NothingTold, op.kind = "fill", op'.kind = "fill", UNCHANGED told,
           op.stage \notin Early, op'.stage \notin Early,
           NEW now \in SUBSET FillDue, wrote' = wrote \union now,
           FillDue' \in SUBSET (FillDue \ now)
    PROVE  FillMoves
<1>1. FillStage = "sent" /\ FillStage' = "sent" /\ FillSays' = FillSays
  BY DEF FillStage, FillSays, Early
<1>2. PopupPromise!Write
  BY <1>1 DEF PopupPromise!Write
<1>3. QED
  BY <1>2 DEF FillMoves, NothingTold, PopupPromise!Next

\* A step that ends the fill, or that is of no fill, with what is told of it.
LEMMA FillTells ==
    ASSUME PopupInv, NothingTold, op' = NoOp,
           \/ told' = told \/ told' = "idle"
           \/ op.kind = "fill" /\ told' \in {"complete", "rejected", "uncertain", "not sent"},
           op.kind = "fill" /\ told' \in {"rejected", "not sent"} => wrote = {},
           told' = "uncertain" /\ told # "uncertain" => op.stage \notin Early,
           UNCHANGED wrote
    PROVE  FillMoves
<1>1. FillStage' = "over" /\ FillDue' = {}
  BY PopupNullFields DEF FillStage, FillDue
<1>2. NothingTold'
  BY PopupNullFields DEF NothingTold
<1>3. FillSays' \in PopupPromise!Verdicts
  <2>1. told \in {"idle", "waiting", "filling", "complete", "rejected", "uncertain", "not sent"}
    BY DEF PopupInv, PopupTyping
  <2>2. told' \in {"idle", "waiting", "filling", "complete", "rejected", "uncertain", "not sent"}
    BY <2>1
  <2>3. QED
    BY <2>2 DEF FillSays, PopupPromise!Verdicts
<1>4. CASE op.kind = "fill"
  <2>1. FillSays = "nothing" /\ FillStage # "over"
    BY <1>4, FillView DEF NothingTold, Early, OpShape
  <2>2. FillSays' = "not sent" => wrote = {}
    BY <1>4 DEF FillSays, NothingTold
  <2>3. FillSays' = "perhaps" => FillStage = "sent"
    BY <1>4, FillView DEF FillSays, NothingTold
  <2>4. PopupPromise!Tell(FillSays')
    BY <1>1, <2>1, <2>2, <2>3 DEF PopupPromise!Tell
  <2>5. QED
    BY <1>2, <1>3, <2>4 DEF FillMoves, PopupPromise!Next
<1>5. CASE op.kind # "fill"
  <2>1. FillStage = "over" /\ FillDue = {} /\ told' \in {told, "idle"}
    BY <1>5, FillView
  <2>2. CASE told' = told
    BY <1>1, <1>2, <2>1, <2>2 DEF FillMoves, FillSays
  <2>3. CASE told' = "idle"
    <3>1. FillSays' = "nothing"
      BY <2>3 DEF FillSays
    <3>2. PopupPromise!Tell(FillSays')
      BY <1>1, <2>1, <3>1 DEF PopupPromise!Tell
    <3>3. QED
      BY <1>2, <1>3, <3>2 DEF FillMoves, PopupPromise!Next
  <2>4. QED
    BY <2>1, <2>2, <2>3
<1>6. QED
  BY <1>4, <1>5


\* Steps beside a fill: a connection or a permission, another operation, a preview.
LEMMA FillAroundStep ==
    ASSUME PopupInv, NothingTold,
           Reconnect \/ ChangePermissions \/ StartOther \/ EndOther \/ StartLoad \/ LoadStep
    PROVE  FillMoves
<1>0. op \in OpShape
  BY FillView
<1>1. CASE Reconnect \/ ChangePermissions
  <2>1. told' = "idle" /\ UNCHANGED <<tool, op, wrote>>
    BY <1>1 DEF Reconnect, ChangePermissions, Cleared
  <2>2. /\ FillStage' = FillStage /\ FillDue' = FillDue /\ FillSays' = "nothing"
        /\ FillDue \in SUBSET FillDue
    BY <2>1 DEF FillStage, FillDue, FillSays
  <2>3. FillStage = "over" \/ FillSays = "nothing"
    BY FillView DEF NothingTold
  <2>4. PopupPromise!Tell("nothing")
    BY <2>1, <2>2, <2>3 DEF PopupPromise!Tell
  <2>5. QED
    BY <2>1, <2>4 DEF FillMoves, NothingTold, PopupPromise!Next, PopupPromise!Verdicts
<1>2. CASE StartOther \/ EndOther \/ LoadStep
  <2>1. op.kind # "fill" /\ UNCHANGED <<told, wrote>>
    BY <1>2 DEF StartOther, EndOther, LoadStep, Inspect, LoadProfile, Show, Busy
  <2>2. op'.kind # "fill"
    BY <1>0, <1>2, PopupNullFields, PopupNulls
    DEF StartOther, EndOther, LoadStep, Inspect, LoadProfile, Show, OpEnds, OpShape
  <2>3. QED
    BY <2>1, <2>2 DEF FillMoves, NothingTold, FillStage, FillDue, FillSays
<1>3. CASE StartLoad
  <2>1. op.kind # "fill" /\ op'.kind # "fill" /\ told' = "idle" /\ wrote' = {}
    BY <1>3, PopupNulls DEF StartLoad, Busy, Cleared, OpShape
  <2>2. /\ FillStage = "over" /\ FillStage' = "over" /\ FillDue' = {} /\ FillSays' = "nothing"
    BY <2>1 DEF FillStage, FillDue, FillSays
  <2>3. PopupPromise!Approve
    BY <2>1, <2>2 DEF PopupPromise!Approve
  <2>4. QED
    BY <2>1, <2>3 DEF FillMoves, NothingTold, PopupPromise!Next
<1>4. QED
  BY <1>1, <1>2, <1>3

\* The fill is approved, checked and sent.
LEMMA FillBeginsStep ==
    ASSUME PopupInv, NothingTold, StartFill \/ Merge \/ CheckProfile \/ Dispatch
    PROVE  FillMoves
<1>0. op \in OpShape
  BY FillView
<1>1. CASE StartFill
  <2>1. op.kind # "fill" /\ told' = "waiting" /\ wrote' = {}
    BY <1>1 DEF StartFill, Busy
  <2>2. op'.kind = "fill" /\ op'.stage = "wait"
    BY <1>1, PopupNulls DEF StartFill, OpShape
  <2>3. /\ FillStage = "over" /\ FillStage' = "approved" /\ FillDue' = {}
        /\ FillSays' = "nothing"
    BY <2>1, <2>2 DEF FillStage, FillDue, FillSays
  <2>4. PopupPromise!Approve
    BY <2>1, <2>3 DEF PopupPromise!Approve
  <2>5. QED
    BY <2>1, <2>4 DEF FillMoves, NothingTold, PopupPromise!Next
<1>2. CASE Merge
  <2>1. op.kind = "fill" /\ op.stage = "wait" /\ UNCHANGED <<told, wrote>>
    BY <1>2 DEF Merge
  <2>2. op'.kind = "fill" /\ op'.stage = "profile"
    BY <1>0, <1>2 DEF Merge, OpShape
  <2>3. QED
    BY <2>1, <2>2 DEF FillMoves, NothingTold, FillStage, FillDue, FillSays
<1>3. CASE CheckProfile
  <2>1. op.kind = "fill" /\ op.stage = "profile" /\ UNCHANGED wrote
    BY <1>3 DEF CheckProfile
  <2>2. CASE saved = review.saved
    <3>1. op'.kind = "fill" /\ op'.stage = "bind" /\ UNCHANGED told
      BY <1>0, <1>3, <2>2 DEF CheckProfile, OpShape
    <3>2. QED
      BY <2>1, <3>1 DEF FillMoves, NothingTold, FillStage, FillDue, FillSays
  <2>3. CASE saved # review.saved
    <3>1. op' = NoOp /\ told' = "idle"
      BY <1>3, <2>3 DEF CheckProfile, Cleared, OpEnds
    <3>2. QED
      BY <2>1, <3>1, FillTells
  <2>4. QED
    BY <2>2, <2>3
<1>4. CASE Dispatch
  <2>1. op.kind = "fill" /\ op.stage = "bind" /\ told' = "filling" /\ UNCHANGED <<tool, wrote>>
    BY <1>4 DEF Dispatch
  <2>2. op'.kind = "fill" /\ op'.stage = "page" /\ op'.approved = op.approved /\ op'.left = FirstScript
    BY <1>0, <1>4 DEF Dispatch, OpShape
  <2>3. DOMAIN op.approved \subseteq Questions /\ FirstScript \subseteq DOMAIN op.approved
    BY <1>0, ApprovedFact DEF FirstScript
  <2>4. FillStage = "approved" /\ FillStage' = "sent" /\ FillDue' \in SUBSET Questions
    BY <2>1, <2>2, <2>3 DEF FillStage, FillDue
  <2>5. FillSays' = FillSays
    BY <2>1, FillView DEF NothingTold, FillSays
  <2>6. PopupPromise!Send
    BY <2>1, <2>4, <2>5 DEF PopupPromise!Send
  <2>7. QED
    BY <2>1, <2>6 DEF FillMoves, NothingTold, PopupPromise!Next
<1>5. QED
  BY <1>1, <1>2, <1>3, <1>4

\* The scripts write what is due, once, and what is skipped or lost is due no more.
LEMMA FillWritesStep ==
    ASSUME PopupInv, NothingTold, DispatchWidgets \/ FillInTurn \/ Validate \/ ReportFill \/ Lose
    PROVE  FillMoves
<1>0. op \in OpShape /\ FillInv /\ DOMAIN op.approved \subseteq Questions
  BY FillView, ApprovedFact DEF PopupInv
<1>1. CASE DispatchWidgets
  <2>1. /\ op.kind = "fill" /\ op.stage = "between" /\ tool = "internsg"
        /\ UNCHANGED <<tool, told, wrote>>
    BY <1>0, <1>1 DEF DispatchWidgets, FillInv
  <2>2. /\ op'.kind = "fill" /\ op'.stage = "page" /\ op'.approved = op.approved
        /\ op'.left = DOMAIN op.approved \intersect Widgets
    BY <1>0, <1>1 DEF DispatchWidgets, OpShape
  <2>3. FillDue' = DOMAIN op.approved \intersect Widgets /\ FillDue' \subseteq FillDue
    BY <2>1, <2>2 DEF FillDue
  <2>4. {} \in SUBSET FillDue /\ FillDue' \in SUBSET (FillDue \ {}) /\ wrote' = wrote \union {}
    BY <2>1, <2>3
  <2>5. QED
    BY <2>1, <2>2, <2>4, FillWrites DEF Early
<1>2. CASE FillInTurn
  <2> DEFINE free == {q \in op.left : page.value[q] = "empty" /\ Same(q)}
             widgets == DOMAIN op.approved \intersect Widgets
             res == IF op.left \intersect Widgets = {} /\ widgets # {} THEN "first" ELSE "report"
             none == {}
             done == op.filled \union free
  <2>1. /\ tool = "internsg" /\ op.kind = "fill" /\ op.stage = "page" /\ wrote' = wrote \union free
        /\ op' = [op EXCEPT !.stage = "report", !.left = none, !.filled = done, !.result = res]
        /\ UNCHANGED <<tool, told>>
    BY <1>0, <1>2 DEF FillInTurn, Injected, OpShape, Write
  <2>2. FillDue = op.left \union widgets
    BY <2>1 DEF FillDue
  <2>3. free \subseteq op.left /\ (res = "first" => op.left \intersect widgets = {})
    OBVIOUS
  <2> HIDE DEF free, res, done, none
  <2>4. /\ op'.kind = "fill" /\ op'.stage = "report" /\ op'.approved = op.approved
        /\ op'.left = none /\ op'.result = res
    BY <1>0, <2>1 DEF OpShape
  <2>5. FillDue' = IF res = "first" THEN widgets ELSE {}
    BY <2>1, <2>4 DEF FillDue, none
  <2>6. free \in SUBSET FillDue /\ FillDue' \in SUBSET (FillDue \ free)
    BY <2>2, <2>3, <2>5
  <2>7. QED
    BY <2>1, <2>4, <2>6, FillWrites DEF Early
<1>3. CASE Validate \/ ReportFill \/ Lose
  <2>1. /\ op.kind = "fill" /\ op.stage \in {"page", "writing"} /\ UNCHANGED <<tool, told, wrote>>
    BY <1>3 DEF Validate, ReportFill, Lose, Injected
  <2>2. /\ op'.kind = "fill" /\ op'.approved = op.approved /\ op'.left = op.left
        /\ \/ op'.stage = "writing" /\ tool = "ats"
           \/ op'.stage = "report" /\ op'.result # "first"
    <3>1. CASE Validate
      BY <1>0, <2>1, <3>1 DEF Validate, OpShape
    <3>2. CASE ReportFill
      <4> DEFINE filled == {q \in op.filled : page.value[q] = op.approved[q]}
      <4>1. op' = [op EXCEPT !.stage = "report", !.result = "report", !.filled = filled]
        BY <1>0, <3>2 DEF ReportFill, OpShape
      <4> HIDE DEF filled
      <4>2. QED
        BY <1>0, <2>1, <4>1 DEF OpShape
    <3>3. CASE Lose
      BY <1>0, <2>1, <3>3 DEF Lose, OpShape
    <3>4. QED
      BY <1>3, <3>1, <3>2, <3>3
  <2>3. FillDue' \subseteq FillDue
    BY <2>1, <2>2 DEF FillDue
  <2>4. {} \in SUBSET FillDue /\ FillDue' \in SUBSET (FillDue \ {}) /\ wrote' = wrote \union {}
    BY <2>1, <2>3
  <2>5. QED
    BY <2>1, <2>2, <2>4, FillWrites DEF Early
<1>4. QED
  BY <1>1, <1>2, <1>3

LEMMA OneWriteStep ==
    ASSUME PopupInv, NothingTold, NEW q \in Questions, FillNext(q) \/ Choose(q)
    PROVE  FillMoves
<1>0. op \in OpShape /\ FillInv
  BY FillView DEF PopupInv
<1>1. /\ tool = "ats" /\ op.kind = "fill" /\ op.stage = "writing" /\ q \in op.left
      /\ UNCHANGED <<tool, told>>
  BY <1>0 DEF FillNext, Choose, Injected, FillInv
<1>2. FillDue = op.left
  BY <1>1 DEF FillDue
<1>3. /\ op'.kind = "fill" /\ op'.stage = "writing"
      /\ \/ op'.left = op.left \ {q} /\ wrote' = wrote \union {q}
         \/ op'.left \subseteq op.left /\ wrote' = wrote
  <2>1. CASE FillNext(q)
    <3>1. CASE op' = [op EXCEPT !.opened = {q}] /\ UNCHANGED wrote
      BY <1>0, <1>1, <3>1 DEF OpShape
    <3>2. CASE op' = [op EXCEPT !.left = @ \ {q}, !.filled = @ \union {q}] /\ Write({q})
      BY <1>0, <1>1, <3>2 DEF OpShape, Write
    <3>3. CASE op' = [op EXCEPT !.left = @ \ {q}] /\ UNCHANGED wrote
      BY <1>0, <1>1, <3>3 DEF OpShape
    <3>4. QED
      BY <2>1, <3>1, <3>2, <3>3 DEF FillNext
  <2>2. CASE Choose(q)
    <3>1. /\ op'.kind = "fill" /\ op'.stage = "writing" /\ op'.left = op.left \ {q}
      BY <1>0, <1>1, <2>2 DEF Choose, OpShape
    <3>2. wrote' = wrote \union {q} \/ wrote' = wrote
      BY <2>2 DEF Choose, Write
    <3>3. QED
      BY <3>1, <3>2
  <2>3. QED
    BY <2>1, <2>2
<1>4. FillDue' = op'.left
  BY <1>1, <1>3 DEF FillDue
<1>5. CASE op'.left = op.left \ {q} /\ wrote' = wrote \union {q}
  <2>1. {q} \in SUBSET FillDue /\ FillDue' \in SUBSET (FillDue \ {q})
    BY <1>1, <1>2, <1>4, <1>5
  <2>2. QED
    BY <1>1, <1>3, <1>5, <2>1, FillWrites DEF Early
<1>6. CASE op'.left \subseteq op.left /\ wrote' = wrote
  <2>1. {} \in SUBSET FillDue /\ FillDue' \in SUBSET (FillDue \ {}) /\ wrote' = wrote \union {}
    BY <1>2, <1>4, <1>6
  <2>2. QED
    BY <1>1, <1>3, <2>1, FillWrites DEF Early
<1>7. QED
  BY <1>3, <1>5, <1>6

\* The popup reads the report, or an error ends the fill.
LEMMA FillEndsStep ==
    ASSUME PopupInv, NothingTold, ReadReport \/ Fail
    PROVE  FillMoves
<1>0. op \in OpShape /\ FillInv
  BY FillView DEF PopupInv
<1>1. CASE ReadReport
  <2>1. op.kind = "fill" /\ op.stage = "report" /\ UNCHANGED <<tool, wrote>>
    BY <1>1 DEF ReadReport
  <2>2. CASE SameSession /\ op.result = "first" /\ review = op.review
    <3>1. UNCHANGED told /\ tool = "internsg"
      BY <1>0, <1>1, <2>1, <2>2 DEF ReadReport, FillInv
    <3>2. /\ op'.kind = "fill" /\ op'.stage = "between" /\ op'.approved = op.approved
          /\ op'.left = op.left
      BY <1>0, <1>1, <2>2 DEF ReadReport, OpShape
    <3>3. FillDue' = FillDue
      BY <2>1, <2>2, <3>1, <3>2 DEF FillDue
    <3>4. {} \in SUBSET FillDue /\ FillDue' \in SUBSET (FillDue \ {}) /\ wrote' = wrote \union {}
      BY <2>1, <3>3
    <3>5. QED
      BY <2>1, <3>1, <3>2, <3>4, FillWrites DEF Early
  <2>3. CASE ~(SameSession /\ op.result = "first" /\ review = op.review)
    <3>1. op' = NoOp /\ told' = IF SameSession THEN Outcome ELSE told
      BY <1>1, <2>3 DEF ReadReport, OpEnds
    <3>2. told' = told \/ told' \in {"complete", "rejected", "uncertain"}
      BY <3>1 DEF Outcome
    <3>3. told' \in {"rejected", "not sent"} => wrote = {}
      BY <1>0, <2>1, <3>1 DEF Outcome, FillInv
    <3>4. QED
      BY <2>1, <3>1, <3>2, <3>3, FillTells DEF Early
  <2>4. QED
    BY <2>2, <2>3
<1>2. CASE Fail
  <2>1. /\ op' = NoOp /\ UNCHANGED wrote
        /\ told' = IF op.kind = "fill" /\ SameSession
                   THEN IF op.stage = "between" THEN "uncertain" ELSE "not sent" ELSE told
        /\ op.kind = "fill" => op.stage \in {"wait", "profile", "bind", "between"}
    BY <1>2 DEF Fail, OpEnds
  <2>2. op.kind = "fill" /\ told' \in {"rejected", "not sent"} => wrote = {}
    BY <1>0, <2>1 DEF FillInv
  <2>3. told' = "uncertain" /\ told # "uncertain" => op.stage \notin Early
    BY <2>1 DEF Early
  <2>4. QED
    BY <2>1, <2>2, <2>3, FillTells
<1>3. QED
  BY <1>1, <1>2

LEMMA PopupFillStep == PopupInv /\ NothingTold /\ [PopupNext]_popupVars => FillMoves
<1> SUFFICES ASSUME PopupInv, NothingTold, [PopupNext]_popupVars PROVE FillMoves
  OBVIOUS
<1>1. CASE \E q \in Questions : AnswerOnWebsite(q) \/ RenderAnew(q) \/ Edit(q)
  BY <1>1, FillUntouched DEF AnswerOnWebsite, RenderAnew, Edit
<1>2. CASE Leave \/ Reload \/ SaveProfile
  BY <1>2, FillUntouched DEF Leave, Reload, SaveProfile
<1>3. CASE \E r \in Previews : JobStep(r)
  BY <1>3, FillUntouched DEF JobStep, JobAnswered, Reread, Apply, TimeOut
<1>4. CASE UNCHANGED popupVars
  BY <1>4, FillUntouched DEF popupVars
<1>5. CASE Reconnect \/ ChangePermissions \/ StartOther \/ StartLoad \/ EndOther \/ LoadStep
  BY <1>5, FillAroundStep
<1>6. CASE StartFill
  BY <1>6, FillBeginsStep
<1>7. CASE FillStep
  BY <1>7, FillBeginsStep, FillWritesStep, OneWriteStep, FillEndsStep DEF FillStep
<1>8. QED
  BY <1>1, <1>2, <1>3, <1>4, <1>5, <1>6, <1>7 DEF PopupNext, OperationStep
-------------------------------------------------------------------------------
(* A click of the page as OneFill has it *)

\* A click's answers are on their way in one place only: with its message, with the
\* worker or in a script; and while the page waits it has said nothing yet, unless the
\* form has changed under the click.
CarriedInv ==
    /\ message.kind = "fill" /\ message.answer # "error" /\ worker.step # "await" =>
          script.click # view.click
    /\ worker.step = "await" /\ script.click = view.click => worker.left \intersect script.items = {}
    /\ view.stage # "idle" /\ ValidContext => outcome.says = "nothing"
    /\ view.stage = "inspect" /\ ~ValidContext => outcome.says = "not sent"
    /\ view.stage = "fill" /\ ~ValidContext => outcome.says = "perhaps"

\* A step of the page or its extension is one of the click's fill, or none.
ClickMoves ==
    CarriedInv' /\ [BridgePromise!Next]_<<ClickStage, ClickDue, ClickWrote, ClickSays>>

\* A step in which the page says and starts nothing.
LEMMA ClickWrites ==
    ASSUME UNCHANGED <<view, outcome>>, NEW now \in SUBSET ClickDue,
           ClickWrote' = ClickWrote \union now, ClickDue' \in SUBSET (ClickDue \ now)
    PROVE  BridgePromise!Next
<1>1. ClickStage' = ClickStage /\ ClickSays' = ClickSays
  BY DEF ClickStage, ClickSays, ValidContext
<1>2. BridgePromise!Write
  BY <1>1 DEF BridgePromise!Write
<1>3. QED
  BY <1>2 DEF BridgePromise!Next

LEMMA ClickCalm ==
    ASSUME UNCHANGED <<view, outcome, put>>, ClickDue' \subseteq ClickDue
    PROVE  BridgePromise!Next
<1>1. {} \in SUBSET ClickDue /\ ClickDue' \in SUBSET (ClickDue \ {})
  OBVIOUS
<1>2. ClickWrote' = ClickWrote \union {}
  BY DEF ClickWrote
<1>3. QED
  BY <1>1, <1>2, ClickWrites

LEMMA CarriedCalm ==
    ASSUME CarriedInv, UNCHANGED <<view, outcome, script>>,
           message'.kind = "fill" /\ message'.answer # "error" /\ worker'.step # "await" =>
               message.kind = "fill" /\ message.answer # "error" /\ worker.step # "await",
           worker'.step = "await" => worker.step = "await" /\ worker'.left = worker.left
    PROVE  CarriedInv'
  BY DEF CarriedInv, ValidContext

LEMMA ReplyDue ==
    ASSUME BridgeInv, worker # AtRest, NEW answer \in {"ok", "error"}, NEW items \in SUBSET Blanks,
           Reply(answer, items)
    PROVE  /\ MessageDue' = {} /\ worker'.step = "rest"
           /\ message'.kind = "fill" => message.kind = "fill" /\ message'.answer = answer
<1>1. message.answer # "unheard" => message'.answer \in {"ok", "error"}
  BY BridgeHas, ReplyFact
<1>2. QED
  BY <1>1, BridgeHas, BridgeNulls, ReplyFact DEF MessageDue

\* The worker goes on with what it has to write, or answers.
LEMMA WorkerMoves ==
    ASSUME BridgeInv, CarriedInv, worker # AtRest, worker.step # "await",
           UNCHANGED <<view, outcome, put, script>>,
           \/ /\ UNCHANGED message /\ worker'.step \notin {"rest", "await"}
              /\ worker'.left = worker.left
           \/ \E answer \in {"ok", "error"}, items \in SUBSET Blanks : Reply(answer, items)
    PROVE  ClickMoves
<1>0. ScriptDue' = ScriptDue
  BY DEF ScriptDue
<1>1. CASE /\ UNCHANGED message /\ worker'.step \notin {"rest", "await"}
           /\ worker'.left = worker.left
  <2>1. worker' # AtRest /\ MessageDue' = MessageDue
    BY <1>1, BridgeNulls DEF MessageDue
  <2>2. ClickDue' \subseteq ClickDue
    BY <1>0, <2>1 DEF ClickDue
  <2>3. CarriedInv'
    BY <1>1, CarriedCalm
  <2>4. QED
    BY <2>2, <2>3, ClickCalm DEF ClickMoves
<1>2. CASE \E answer \in {"ok", "error"}, items \in SUBSET Blanks : Reply(answer, items)
  <2>1. PICK answer \in {"ok", "error"}, items \in SUBSET Blanks : Reply(answer, items)
    BY <1>2
  <2>2. /\ MessageDue' = {} /\ worker'.step = "rest"
        /\ message'.kind = "fill" => message.kind = "fill" /\ message'.answer = answer
    BY <2>1, ReplyDue
  <2>3. ClickDue' \subseteq ClickDue
    BY <1>0, <2>2 DEF ClickDue
  <2>4. message.answer # "error"
    BY BridgeHas
  <2>5. CarriedInv'
    BY <2>2, <2>4, CarriedCalm
  <2>6. QED
    BY <2>3, <2>5, ClickCalm DEF ClickMoves
<1>3. QED
  BY <1>1, <1>2

LEMMA WorkerReadsMove ==
    ASSUME BridgeInv, CarriedInv,
           ReadSession \/ VerifyPlatform \/ MatchFrame \/ Scan \/ KeepInspected \/ ReportFilled
    PROVE  ClickMoves
<1>0. worker \in WorkerShape /\ {} \in SUBSET Blanks
  BY BridgeHas
<1>1. /\ worker # AtRest /\ worker.step # "await" /\ UNCHANGED <<view, outcome, put, script>>
  BY DEF ReadSession, VerifyPlatform, MatchFrame, Scan, KeepInspected, ReportFilled, Working
<1>2. \/ /\ UNCHANGED message /\ worker'.step \notin {"rest", "await"} /\ worker'.left = worker.left
      \/ \E answer \in {"ok", "error"}, items \in SUBSET Blanks : Reply(answer, items)
  <2>1. CASE Stop
    BY <1>0, <2>1 DEF Stop
  <2>2. CASE ReadSession /\ ~Stop
    <3> DEFINE seen == [Start EXCEPT !.link = world.link]
    <3>1. worker' = [worker EXCEPT !.step = "platform", !.seen = seen] /\ UNCHANGED message
      BY <2>2 DEF ReadSession, Proceed
    <3> HIDE DEF seen
    <3>2. QED
      BY <1>0, <3>1 DEF WorkerShape
  <2>3. CASE VerifyPlatform /\ ~Stop
    <3> DEFINE seen == [worker.seen EXCEPT !.account = world.account, !.details = world.details]
    <3>1. worker' = [worker EXCEPT !.step = "frames", !.seen = seen] /\ UNCHANGED message
      BY <1>0, <2>3 DEF VerifyPlatform, Proceed, WorkerShape
    <3> HIDE DEF seen
    <3>2. QED
      BY <1>0, <3>1 DEF WorkerShape
  <2>4. CASE MatchFrame /\ ~Stop
    <3> DEFINE seen == [worker.seen EXCEPT !.document = world.document]
    <3>1. worker' = [worker EXCEPT !.step = worker.next, !.seen = seen] /\ UNCHANGED message
      BY <2>4 DEF MatchFrame, Proceed
    <3> HIDE DEF seen
    <3>2. worker.next \notin {"rest", "await"}
      BY <1>1, BridgeHas DEF CheckedInv, AskShape
    <3>3. QED
      BY <1>0, <3>1, <3>2 DEF WorkerShape
  <2>5. CASE Scan /\ ~Stop
    <3> DEFINE free == {b \in Blanks : frame[b] = "empty"}
    <3>1. /\ worker' = [worker EXCEPT !.step = "session", !.next = "review", !.checks = TRUE,
                           !.expected = worker.seen, !.free = free]
          /\ UNCHANGED message
      BY <2>5 DEF Scan, Proceed
    <3> HIDE DEF free
    <3>2. QED
      BY <1>0, <3>1 DEF WorkerShape
  <2>6. CASE KeepInspected
    BY <1>0, <2>6 DEF KeepInspected, WorkerShape
  <2>7. CASE ReportFilled
    BY <1>0, <2>7 DEF ReportFilled, WorkerShape
  <2>8. QED
    BY <2>1, <2>2, <2>3, <2>4, <2>5, <2>6, <2>7
<1>3. QED
  BY <1>1, <1>2, WorkerMoves

LEMMA ReceiveMove ==
    ASSUME BridgeInv, CarriedInv, Receive
    PROVE  ClickMoves
<1>0. /\ worker = AtRest /\ message # NoMessage /\ message.answer \in {"none", "unheard"}
      /\ UNCHANGED <<view, outcome, script, put>>
  BY DEF Receive
<1>1. message.kind \in {"inspect", "fill"} /\ worker.step = "rest"
  BY <1>0, BridgeHas, BridgeNulls DEF MessageInv, AskShape
<1>2. \/ UNCHANGED message /\ worker'.step = "session" /\ worker' # AtRest
         /\ (message.kind = "fill" => worker'.left = message.items)
      \/ message.kind = "fill" /\ Stop
  <2>1. CASE message.kind = "inspect"
    <3>1. /\ worker' = [AtRest EXCEPT !.step = "session", !.next = "scan"]
          /\ UNCHANGED message
      BY <1>0, <2>1 DEF Receive
    <3>2. worker'.step = "session"
      BY <3>1, BridgeNulls DEF WorkerShape
    <3>3. QED
      BY <2>1, <3>1, <3>2, BridgeNulls
  <2>2. CASE message.kind = "fill" /\ kept = NoKept
    BY <1>0, <2>2 DEF Receive
  <2>3. CASE message.kind = "fill" /\ kept # NoKept
    <3> DEFINE next == IF message.items \subseteq RichBlanks THEN "rich" ELSE "plain"
               expected == kept.seen
               items == message.items
    <3>1. /\ worker' = [AtRest EXCEPT !.step = "session", !.expected = expected, !.checks = TRUE,
                           !.next = next, !.left = items]
          /\ UNCHANGED message
      BY <1>0, <2>3 DEF Receive
    <3> HIDE DEF next, expected, items
    <3>2. worker'.step = "session" /\ worker'.left = items
      BY <3>1, BridgeNulls DEF WorkerShape
    <3>3. QED
      BY <2>3, <3>1, <3>2, BridgeNulls DEF items
  <2>4. QED
    BY <1>1, <2>1, <2>2, <2>3
<1>3. ScriptDue' = ScriptDue
  BY <1>0 DEF ScriptDue
<1>4. CASE UNCHANGED message /\ worker'.step = "session" /\ worker' # AtRest
           /\ (message.kind = "fill" => worker'.left = message.items)
  <2>1. MessageDue' = MessageDue
    BY <1>0, <1>4 DEF MessageDue
  <2>2. ClickDue' \subseteq ClickDue
    BY <1>3, <2>1 DEF ClickDue
  <2>3. CarriedInv'
    BY <1>0, <1>1, <1>4, CarriedCalm
  <2>4. QED
    BY <1>0, <2>2, <2>3, ClickCalm DEF ClickMoves
<1>5. CASE message.kind = "fill" /\ Stop
  <2>1. /\ worker' = AtRest
        /\ message' = IF message.answer = "unheard" THEN NoMessage
                      ELSE [message EXCEPT !.answer = "error", !.items = {}]
    BY <1>5 DEF Stop, Reply
  <2>2. message'.kind = "none" \/ message'.answer = "error"
    BY <2>1, BridgeHas, BridgeNulls DEF AskShape
  <2>3. MessageDue' = {} /\ worker'.step = "rest"
    BY <2>1, <2>2, BridgeNulls DEF MessageDue
  <2>4. ClickDue' \subseteq ClickDue
    BY <1>3, <2>3 DEF ClickDue
  <2>5. CarriedInv'
    BY <1>0, <2>2, <2>3, CarriedCalm
  <2>6. QED
    BY <1>0, <2>4, <2>5, ClickCalm DEF ClickMoves
<1>6. QED
  BY <1>2, <1>4, <1>5

\* The answers of a kind leave the worker in a script.
LEMMA SendScriptMove ==
    ASSUME BridgeInv, CarriedInv, SendScript
    PROVE  ClickMoves
<1> DEFINE items == IF worker.step = "plain" THEN worker.left \ RichBlanks
                    ELSE worker.left \intersect RichBlanks
           left == worker.left \ items
<1>0. /\ worker.step \in {"plain", "rich"} /\ script = NoScript
      /\ script' = [click |-> message.click, document |-> worker.expected.document, items |-> items,
                    late |-> message.late]
      /\ worker' = [worker EXCEPT !.step = "await", !.left = left]
      /\ UNCHANGED <<view, outcome, message, put>>
  BY BridgeHas DEF SendScript, WorkerShape
<1>1. items \subseteq worker.left /\ left \intersect items = {} /\ left \union items \subseteq worker.left
  OBVIOUS
<1> HIDE DEF items, left
<1>2. message.kind = "fill" /\ message.answer \in {"none", "unheard"} /\ worker # AtRest
  BY <1>0, BridgeHas, BridgeNulls DEF CheckedInv, AskShape
<1>3. worker'.step = "await" /\ worker'.left = left /\ worker' # AtRest
  BY <1>0, BridgeHas, BridgeNulls DEF WorkerShape
<1>4. MessageDue = worker.left /\ MessageDue' = left
  BY <1>0, <1>2, <1>3 DEF MessageDue
<1>5. ScriptDue' \subseteq items
  BY <1>0 DEF ScriptDue
<1>6. ClickDue' \subseteq ClickDue
  BY <1>1, <1>4, <1>5 DEF ClickDue
<1>7. CarriedInv'
  BY <1>0, <1>1, <1>3 DEF CarriedInv, ValidContext
<1>8. QED
  BY <1>0, <1>6, <1>7, ClickCalm DEF ClickMoves

\* A script that is over leaves the rest of its click with the worker, if anyone has it.
LEMMA ScriptOver ==
    ASSUME BridgeInv, CarriedInv, script # NoScript, script' = NoScript, UNCHANGED <<view, outcome>>,
           \/ ~Awaited /\ UNCHANGED <<worker, message>>
           \/ Awaited /\ Stop
           \/ Awaited /\ UNCHANGED message /\ worker'.step = "session" /\ worker'.left = worker.left
    PROVE  /\ CarriedInv' /\ ScriptDue' = {} /\ MessageDue' \subseteq MessageDue
           /\ script.click = view.click => MessageDue' \intersect script.items = {}
<1>0. /\ view.click # 0 /\ NoScript.click # view.click
      /\ message.kind # "none" => message.click = view.click
  BY BridgeHas, BridgeNulls DEF ClickInv, MessageInv, ViewShape, ScriptShape
<1>1. ScriptDue' = {}
  BY <1>0 DEF ScriptDue
<1>2. Awaited => /\ worker.step = "await" /\ worker # AtRest
                 /\ message.kind = "fill" /\ script.click = view.click
  BY <1>0, BridgeHas, BridgeNulls DEF Awaited, Working, CheckedInv, AskShape
<1>3. /\ MessageDue' \subseteq MessageDue
      /\ script.click = view.click => MessageDue' \intersect script.items = {}
  <2>1. CASE ~Awaited /\ UNCHANGED <<worker, message>>
    <3>1. MessageDue' = MessageDue
      BY <2>1 DEF MessageDue
    <3>2. script.click = view.click => MessageDue = {}
      BY <1>0, <2>1, BridgeNulls DEF MessageDue, CarriedInv, Awaited, Working
    <3>3. QED
      BY <3>1, <3>2
  <2>2. CASE Awaited /\ Stop
    <3>1. MessageDue' = {}
      BY <1>2, <2>2, ReplyDue DEF Stop
    <3>2. QED
      BY <3>1
  <2>3. CASE Awaited /\ UNCHANGED message /\ worker'.step = "session" /\ worker'.left = worker.left
    <3>1. worker' # AtRest
      BY <2>3, BridgeNulls
    <3>2. MessageDue = worker.left /\ MessageDue' = worker.left
      BY <1>2, <2>3, <3>1, BridgeHas DEF MessageDue
    <3>3. worker.left \intersect script.items = {}
      BY <1>2, <2>3 DEF CarriedInv
    <3>4. QED
      BY <3>2, <3>3
  <2>4. QED
    BY <2>1, <2>2, <2>3
<1>4. CarriedInv'
  BY <1>0 DEF CarriedInv, ValidContext
<1>5. QED
  BY <1>1, <1>3, <1>4

LEMMA LoseScriptMove ==
    ASSUME BridgeInv, CarriedInv, LoseScript
    PROVE  ClickMoves
<1>1. /\ script # NoScript /\ script' = NoScript /\ UNCHANGED <<view, outcome, put>>
      /\ \/ ~Awaited /\ UNCHANGED <<worker, message>>
         \/ Awaited /\ Stop
  BY DEF LoseScript
<1>2. CarriedInv' /\ ScriptDue' = {} /\ MessageDue' \subseteq MessageDue
  BY <1>1, ScriptOver
<1>3. ClickDue' \subseteq ClickDue
  BY <1>2 DEF ClickDue
<1>4. QED
  BY <1>1, <1>2, <1>3, ClickCalm DEF ClickMoves

LEMMA RunScriptMove ==
    ASSUME BridgeInv, CarriedInv, RunScript
    PROVE  ClickMoves
<1> DEFINE free == {b \in script.items : frame[b] = "empty"}
<1>0. script # NoScript /\ script' = NoScript /\ UNCHANGED <<view, outcome>>
  BY DEF RunScript
<1>1. PICK now \in (IF ScriptExpired THEN {{}} ELSE {free}) :
              /\ put' = put \union {<<script.click, b>> : b \in now}
              /\ IF ~Awaited THEN UNCHANGED <<worker, message>>
                 ELSE IF ScriptExpired THEN Stop
                 ELSE Proceed([worker EXCEPT !.filled = @ \union now, !.step = "session",
                                  !.next = IF worker.left = {} THEN "report" ELSE "rich"])
  BY DEF RunScript
<1>2. now \subseteq script.items
  BY <1>1
<1> HIDE DEF free
<1>3. \/ ~Awaited /\ UNCHANGED <<worker, message>>
      \/ Awaited /\ Stop
      \/ Awaited /\ UNCHANGED message /\ worker'.step = "session" /\ worker'.left = worker.left
  <2>1. CASE Awaited /\ ~ScriptExpired
    <3> DEFINE filled == worker.filled \union now
               next == IF worker.left = {} THEN "report" ELSE "rich"
    <3>1. /\ worker' = [worker EXCEPT !.filled = filled, !.step = "session", !.next = next]
          /\ UNCHANGED message
      BY <1>1, <2>1, BridgeHas DEF Proceed, WorkerShape
    <3> HIDE DEF filled, next
    <3>2. worker'.step = "session" /\ worker'.left = worker.left
      BY <3>1, BridgeHas DEF WorkerShape
    <3>3. QED
      BY <2>1, <3>1, <3>2
  <2>2. QED
    BY <1>1, <2>1
<1>4. /\ CarriedInv' /\ ScriptDue' = {} /\ MessageDue' \subseteq MessageDue
      /\ script.click = view.click => MessageDue' \intersect script.items = {}
  BY <1>0, <1>3, ScriptOver
<1>5. CASE script.click = view.click
  <2>1. ClickDue = MessageDue \union script.items
    BY <1>5 DEF ClickDue, ScriptDue
  <2>2. now \in SUBSET ClickDue /\ ClickDue' \in SUBSET (ClickDue \ now)
    BY <1>2, <1>4, <1>5, <2>1 DEF ClickDue
  <2>3. script.items \subseteq Blanks
    BY BridgeHas DEF ScriptShape
  <2>4. ClickWrote' = ClickWrote \union now
    BY <1>0, <1>1, <1>2, <1>5, <2>3 DEF ClickWrote
  <2>5. QED
    BY <1>0, <1>4, <2>2, <2>4, ClickWrites DEF ClickMoves
<1>6. CASE script.click # view.click
  <2>1. ClickDue' \in SUBSET (ClickDue \ {}) /\ {} \in SUBSET ClickDue
    BY <1>4 DEF ClickDue
  <2>2. \A b \in Blanks : <<view.click, b>> \in put' <=> <<view.click, b>> \in put
    BY <1>1, <1>6
  <2>3. ClickWrote' = ClickWrote \union {}
    BY <1>0, <2>2 DEF ClickWrote
  <2>4. QED
    BY <1>0, <1>4, <2>1, <2>3, ClickWrites DEF ClickMoves
<1>7. QED
  BY <1>5, <1>6

\* What changes around the click: the form, the account, the worker, the time.
LEMMA AroundMove ==
    ASSUME BridgeInv, CarriedInv,
           \/ ChangeWorld \/ Navigate \/ WorkerKilled \/ DeadlinePasses
           \/ \E b \in Blanks : AnswerByHand(b)
    PROVE  ClickMoves
<1>0. UNCHANGED <<view, outcome, put>>
  BY DEF ChangeWorld, Navigate, WorkerKilled, DeadlinePasses, AnswerByHand
<1>1. CASE ChangeWorld \/ Navigate \/ \E b \in Blanks : AnswerByHand(b)
  <2>1. UNCHANGED <<message, worker, script>>
    BY <1>1 DEF ChangeWorld, Navigate, AnswerByHand
  <2>2. ClickDue' \subseteq ClickDue
    BY <1>0, <2>1 DEF ClickDue, MessageDue, ScriptDue
  <2>3. CarriedInv'
    BY <1>0, <2>1, CarriedCalm
  <2>4. QED
    BY <1>0, <2>2, <2>3, ClickCalm DEF ClickMoves
<1>2. CASE WorkerKilled
  <2>1. UNCHANGED script /\ worker' = AtRest /\ worker'.step = "rest"
    BY <1>2, BridgeNulls DEF WorkerKilled
  <2>2. CASE worker = AtRest
    <3>1. UNCHANGED <<message, worker>>
      BY <1>2, <2>2 DEF WorkerKilled
    <3>2. ClickDue' \subseteq ClickDue
      BY <1>0, <2>1, <3>1 DEF ClickDue, MessageDue, ScriptDue
    <3>3. CarriedInv'
      BY <1>0, <2>1, <3>1, CarriedCalm
    <3>4. QED
      BY <1>0, <3>2, <3>3, ClickCalm DEF ClickMoves
  <2>3. CASE worker # AtRest
    <3>1. message'.kind = "none" \/ message'.answer = "error"
      BY <1>2, <2>3, BridgeHas, BridgeNulls DEF WorkerKilled, AskShape
    <3>2. MessageDue' = {} /\ ScriptDue' = ScriptDue
      BY <1>0, <2>1, <3>1 DEF MessageDue, ScriptDue
    <3>3. ClickDue' \subseteq ClickDue
      BY <3>2 DEF ClickDue
    <3>4. CarriedInv'
      BY <1>0, <2>1, <3>1, CarriedCalm
    <3>5. QED
      BY <1>0, <3>3, <3>4, ClickCalm DEF ClickMoves
  <2>4. QED
    BY <2>2, <2>3
<1>3. CASE DeadlinePasses
  <2>1. /\ UNCHANGED worker /\ message'.kind = message.kind /\ message'.answer = message.answer
        /\ message'.items = message.items /\ script'.click = script.click
        /\ script'.items = script.items
    BY <1>3, BridgeHas DEF DeadlinePasses, AskShape, ScriptShape
  <2>2. ClickDue' \subseteq ClickDue
    BY <1>0, <2>1 DEF ClickDue, MessageDue, ScriptDue
  <2>3. CarriedInv'
    BY <1>0, <2>1 DEF CarriedInv, ValidContext
  <2>4. QED
    BY <1>0, <2>2, <2>3, ClickCalm DEF ClickMoves
<1>4. QED
  BY <1>1, <1>2, <1>3

LEMMA NoneSentDue == NoneSent => ClickWrote = {} /\ ClickDue = {}
  BY DEF NoneSent, ClickWrote, ClickDue, MessageDue, ScriptDue

LEMMA SaidFact ==
    ASSUME NEW what, NEW click, NEW filled, Says(what, click, filled)
    PROVE  outcome'.says = what /\ ClickSays' = IF what = "report" THEN "done" ELSE what
  BY DEF Says, ClickSays

\* A step that keeps or ends the click's fill and says what it may of it.
LEMMA ClickTells ==
    ASSUME NEW verdict \in {"nothing", "not sent", "done", "perhaps"}, ClickSays' = verdict,
           verdict \notin {"nothing", ClickSays} => ClickStage # "over" /\ ClickSays = "nothing",
           verdict = "nothing" => ClickStage = "over" \/ ClickSays = "nothing",
           verdict = "not sent" => ClickWrote = {} /\ ClickDue' = {} /\ ClickStage' = "over",
           verdict = "done" => ClickDue' = {} /\ ClickStage' = "over",
           verdict = "perhaps" => ClickStage = "sent" \/ ClickSays = "perhaps",
           ClickStage' \in {ClickStage, "over"}, ClickDue' \subseteq ClickDue,
           UNCHANGED ClickWrote
    PROVE  BridgePromise!Next
<1>1. BridgePromise!Tell(verdict)
  BY DEF BridgePromise!Tell
<1>2. QED
  BY <1>1 DEF BridgePromise!Next, BridgePromise!Verdicts

\* The form is loaded anew under a click, or details are read again without one.
LEMMA ContextMove ==
    ASSUME BridgeInv, CarriedInv, FrameChanged \/ ReloadDraft
    PROVE  ClickMoves
<1>0. /\ view \in ViewShape /\ view.at <= view.generation
      /\ UNCHANGED <<message, worker, script, put>>
  BY BridgeHas DEF ClickInv, FrameChanged, ReloadDraft
<1>1. view'.stage = view.stage /\ view'.click = view.click /\ ~ValidContext'
  <2>1. CASE FrameChanged
    <3> DEFINE document == world.document
               generation == view.generation + 1
    <3>1. view' = [view EXCEPT !.frame = document, !.generation = generation]
      BY <1>0, <2>1 DEF FrameChanged, ViewShape
    <3>2. generation # view.at
      BY <1>0 DEF ViewShape
    <3> HIDE DEF document, generation
    <3>3. QED
      BY <1>0, <3>1, <3>2 DEF ValidContext, ViewShape
  <2>2. CASE ReloadDraft
    <3> DEFINE details == world.details
               generation == view.generation + 1
    <3>1. view' = [view EXCEPT !.draft = details, !.generation = generation]
      BY <1>0, <2>2 DEF ReloadDraft, ViewShape
    <3>2. generation # view.at
      BY <1>0 DEF ViewShape
    <3> HIDE DEF details, generation
    <3>3. QED
      BY <1>0, <3>1, <3>2 DEF ValidContext, ViewShape
  <2>3. QED
    BY <2>1, <2>2
<1>2. ClickDue' = ClickDue /\ ClickWrote' = ClickWrote
  BY <1>0, <1>1 DEF ClickDue, MessageDue, ScriptDue, ClickWrote
<1>3. outcome'.says = CASE view.stage = "idle" -> "nothing"
                        [] view.stage = "fill" -> "perhaps"
                        [] OTHER -> "not sent"
  <2>1. CASE view.stage = "idle"
    BY <2>1, SaidFact DEF FrameChanged, ReloadDraft
  <2>2. CASE view.stage = "fill"
    BY <2>2, SaidFact DEF FrameChanged, ReloadDraft
  <2>3. CASE view.stage = "inspect"
    BY <2>3, SaidFact DEF FrameChanged, ReloadDraft
  <2>4. QED
    BY <1>0, <2>1, <2>2, <2>3 DEF ViewShape
<1>4. CarriedInv'
  BY <1>0, <1>1, <1>3 DEF CarriedInv
<1>5. ClickStage' = IF view.stage = "fill" THEN "sent" ELSE "over"
  BY <1>1 DEF ClickStage
<1>6. CASE view.stage = "idle"
  <2>1. ClickSays' = "nothing" /\ ClickStage = "over" /\ ClickStage' = "over"
    BY <1>3, <1>5, <1>6 DEF ClickSays, ClickStage
  <2>2. QED
    BY <1>2, <1>4, <2>1, ClickTells DEF ClickMoves
<1>7. CASE view.stage = "fill"
  <2>1. ClickSays' = "perhaps" /\ ClickStage' = "sent" /\ ClickStage = "sent"
    BY <1>3, <1>5, <1>7 DEF ClickSays, ClickStage
  <2>2. ClickSays \in {"nothing", "perhaps"}
    BY <1>7 DEF CarriedInv, ClickSays
  <2>3. QED
    BY <1>2, <1>4, <2>1, <2>2, ClickTells DEF ClickMoves
<1>8. CASE view.stage = "inspect"
  <2>1. ClickSays' = "not sent" /\ ClickStage' = "over"
    BY <1>3, <1>5, <1>8 DEF ClickSays
  <2>2. \/ ClickSays = "nothing" /\ ClickStage = "approved"
        \/ ClickSays = "not sent"
    BY <1>8 DEF CarriedInv, ClickSays, ClickStage
  <2>3. ClickWrote = {} /\ ClickDue = {}
    BY <1>8, BridgeHas, NoneSentDue DEF SaidInv
  <2>4. QED
    BY <1>2, <1>4, <2>1, <2>2, <2>3, ClickTells DEF ClickMoves
<1>9. QED
  BY <1>0, <1>6, <1>7, <1>8 DEF ViewShape

LEMMA ClickMove ==
    ASSUME BridgeInv, CarriedInv, Click
    PROVE  ClickMoves
<1> DEFINE click == view.click + 1
           generation == view.generation + 1
           draft == view.draft
<1>0. /\ view.stage = "idle" /\ message = NoMessage /\ UNCHANGED <<worker, script, put>>
      /\ view' = [view EXCEPT !.click = click, !.generation = generation, !.at = generation,
                              !.stage = "inspect"]
      /\ message' = [NoMessage EXCEPT !.kind = "inspect", !.click = click, !.draft = draft]
      /\ Says("nothing", 0, {})
  BY BridgeHas DEF Click, ViewShape
<1>1. click > view.click /\ click \in Nat
  BY BridgeHas DEF ViewShape
<1>2. script.click # click /\ \A b \in Blanks : <<click, b>> \notin put
  <2>1. view.click \in Nat /\ script.click \in Nat /\ script.click <= view.click
    BY BridgeHas DEF ViewShape, ScriptShape, ClickInv
  <2>2. \A b \in Blanks : <<click, b>> \in put => click \in Clicks /\ click <= view.click
    BY BridgeHas DEF BridgeTyping, ClickInv
  <2>3. QED
    BY <2>1, <2>2
<1> HIDE DEF click, generation, draft
<1>3. view'.click = click /\ view'.stage = "inspect" /\ ValidContext'
  BY <1>0, BridgeHas DEF ViewShape, ValidContext
<1>4. message'.kind = "inspect" /\ worker.step = "rest"
  BY <1>0, BridgeHas, BridgeNulls DEF AskShape, CheckedInv
<1>5. outcome'.says = "nothing" /\ ClickSays' = "nothing"
  BY <1>0, SaidFact
<1>6. CarriedInv'
  BY <1>0, <1>3, <1>4, <1>5 DEF CarriedInv
<1>7. ClickStage = "over" /\ ClickStage' = "approved"
  BY <1>0, <1>3 DEF ClickStage
<1>8. ClickDue' = {} /\ ClickWrote' = {}
  BY <1>0, <1>2, <1>3, <1>4 DEF ClickDue, MessageDue, ScriptDue, ClickWrote
<1>9. BridgePromise!Approve
  BY <1>5, <1>7, <1>8 DEF BridgePromise!Approve
<1>10. QED
  BY <1>6, <1>9 DEF ClickMoves, BridgePromise!Next

\* The answers that fit are sent; there may be none.
LEMMA ApproveMove ==
    ASSUME BridgeInv, CarriedInv, Approve
    PROVE  ClickMoves
<1>0. /\ view.stage = "inspect" /\ message.kind = "inspect" /\ message.answer = "ok"
      /\ message.click = view.click /\ UNCHANGED <<worker, script, put>>
      /\ view \in ViewShape /\ message \in AskShape /\ NoneSent
  BY BridgeHas DEF Approve, SaidInv
<1>1. worker = AtRest /\ worker.step = "rest" /\ script.click # view.click
  BY <1>0, BridgeHas, BridgeNulls DEF CheckedInv, NoneSent
<1>2. ClickWrote = {} /\ ClickDue = {}
  BY <1>0, NoneSentDue
<1>3. CASE ValidContext /\ message.items # {}
  <2> DEFINE click == view.click
             draft == message.draft
             items == message.items
  <2>1. /\ view' = [view EXCEPT !.stage = "fill"] /\ UNCHANGED outcome
        /\ message' = [NoMessage EXCEPT !.kind = "fill", !.click = click, !.draft = draft,
                                        !.items = items]
    BY <1>3 DEF Approve
  <2>2. items \in SUBSET Blanks
    BY <1>0 DEF AskShape
  <2> HIDE DEF click, draft, items
  <2>3. /\ view'.stage = "fill" /\ view'.click = view.click /\ ValidContext'
        /\ message'.kind = "fill" /\ message'.items = items
    BY <1>0, <1>3, <2>1, BridgeNulls DEF ViewShape, AskShape, ValidContext
  <2>4. ClickStage = "approved" /\ ClickStage' = "sent" /\ ClickSays' = ClickSays
    BY <1>0, <1>3, <2>1, <2>3 DEF ClickStage, ClickSays
  <2>5. ClickDue' \in SUBSET Blanks /\ ClickWrote' = ClickWrote
    BY <1>0, <1>1, <2>2, <2>3 DEF ClickDue, MessageDue, ScriptDue, ClickWrote
  <2>6. BridgePromise!Send
    BY <2>4, <2>5 DEF BridgePromise!Send
  <2>7. outcome.says = "nothing"
    BY <1>0, <1>3 DEF CarriedInv
  <2>8. CarriedInv'
    BY <1>0, <1>1, <2>1, <2>3, <2>7 DEF CarriedInv
  <2>9. QED
    BY <2>6, <2>8 DEF ClickMoves, BridgePromise!Next
<1>4. CASE ~(ValidContext /\ message.items # {})
  <2>1. /\ view' = [view EXCEPT !.stage = "idle"] /\ message' = NoMessage
        /\ IF ValidContext THEN Says("report", view.click, {}) ELSE UNCHANGED outcome
    BY <1>4 DEF Approve
  <2>2. view'.stage = "idle" /\ view'.click = view.click /\ message'.kind = "none"
    BY <1>0, <2>1, BridgeNulls DEF ViewShape
  <2>3. ClickStage' = "over" /\ ClickDue' = {} /\ ClickWrote' = ClickWrote
    BY <1>0, <1>1, <2>2 DEF ClickStage, ClickDue, MessageDue, ScriptDue, ClickWrote
  <2>4. CarriedInv'
    BY <1>0, <1>1, <2>2 DEF CarriedInv
  <2>5. CASE ValidContext
    <3>1. ClickSays' = "done" /\ ClickSays = "nothing" /\ ClickStage = "approved"
      BY <1>0, <2>1, <2>5, SaidFact DEF CarriedInv, ClickSays, ClickStage
    <3>2. QED
      BY <1>2, <2>3, <2>4, <3>1, ClickTells DEF ClickMoves
  <2>6. CASE ~ValidContext
    <3>1. ClickSays' = ClickSays /\ ClickStage = "over"
      BY <1>0, <2>1, <2>6 DEF ClickSays, ClickStage
    <3>2. QED
      BY <1>2, <2>3, <2>4, <3>1 DEF ClickMoves
  <2>7. QED
    BY <2>5, <2>6
<1>5. QED
  BY <1>3, <1>4

\* The click ends; what it still has to write is on its way.
LEMMA ClickOver ==
    ASSUME BridgeInv, CarriedInv, view.stage # "idle", UNCHANGED <<worker, script, put>>,
           view'.stage = "idle", view'.click = view.click,
           ClickDue' \subseteq ClickDue, CarriedInv',
           view.stage = "inspect" => ClickDue' = {},
           IF ~ValidContext THEN UNCHANGED outcome
           ELSE \/ ClickSays' = OnError
                \/ ClickSays' = "done" /\ ClickDue' = {}
    PROVE  ClickMoves
<1>0. view.stage \in {"inspect", "fill"}
  BY BridgeHas DEF ViewShape
<1>1. ClickStage' = "over" /\ ClickWrote' = ClickWrote
  BY DEF ClickStage, ClickWrote
<1>2. view.stage = "inspect" => ClickWrote = {} /\ ClickDue = {}
  BY BridgeHas, NoneSentDue DEF SaidInv
<1>3. CASE ValidContext
  <2>1. /\ ClickSays = "nothing" /\ ClickStage # "over"
        /\ view.stage = "fill" => ClickStage = "sent"
    BY <1>0, <1>3 DEF CarriedInv, ClickSays, ClickStage
  <2>2. CASE ClickSays' = OnError /\ view.stage = "fill"
    <3>1. ClickSays' = "perhaps"
      BY <2>2 DEF OnError
    <3>2. QED
      BY <1>1, <2>1, <2>2, <3>1, ClickTells DEF ClickMoves
  <2>3. CASE ClickSays' = OnError /\ view.stage = "inspect"
    <3>1. ClickSays' = "not sent"
      BY <2>3 DEF OnError
    <3>2. QED
      BY <1>1, <1>2, <2>1, <2>3, <3>1, ClickTells DEF ClickMoves
  <2>4. CASE ClickSays' = "done" /\ ClickDue' = {}
    BY <1>1, <2>1, <2>4, ClickTells DEF ClickMoves
  <2>5. QED
    BY <1>0, <1>3, <2>2, <2>3, <2>4
<1>4. CASE ~ValidContext
  <2>1. ClickSays' = ClickSays
    BY <1>4 DEF ClickSays
  <2>2. CASE view.stage = "fill"
    <3>1. ClickSays = "perhaps"
      BY <1>4, <2>2 DEF CarriedInv, ClickSays
    <3>2. QED
      BY <1>1, <2>1, <3>1, ClickTells DEF ClickMoves
  <2>3. CASE view.stage = "inspect"
    <3>1. ClickStage = "over"
      BY <1>4, <2>3 DEF ClickStage
    <3>2. QED
      BY <1>1, <1>2, <2>1, <2>3, <3>1 DEF ClickMoves
  <2>4. QED
    BY <1>0, <2>2, <2>3
<1>5. QED
  BY <1>3, <1>4

LEMMA HearMove ==
    ASSUME BridgeInv, CarriedInv, Hear
    PROVE  ClickMoves
<1>0. /\ view.stage # "idle" /\ message.click = view.click
      /\ message.answer = "error" \/ (message.kind = "fill" /\ message.answer = "ok")
      /\ view' = [view EXCEPT !.stage = "idle"] /\ message' = NoMessage
      /\ UNCHANGED <<worker, script, put>>
      /\ view \in ViewShape /\ message.kind = view.stage
  BY BridgeHas DEF Hear, MessageInv
<1>1. view'.stage = "idle" /\ view'.click = view.click /\ message'.kind = "none"
  BY <1>0, BridgeNulls DEF ViewShape
<1>2. worker = AtRest /\ worker.step = "rest"
  BY <1>0, BridgeHas, BridgeNulls DEF CheckedInv
<1>3. CarriedInv'
  BY <1>0, <1>1, <1>2 DEF CarriedInv
<1>4. ClickDue' = ScriptDue /\ ScriptDue \subseteq ClickDue
  BY <1>0, <1>1 DEF ClickDue, MessageDue, ScriptDue
<1>5. view.stage = "inspect" \/ message.answer = "ok" => ScriptDue = {}
  BY <1>0, <1>2, BridgeHas DEF ScriptDue, CarriedInv, SaidInv, NoneSent
<1>6. IF ~ValidContext THEN UNCHANGED outcome
      ELSE \/ ClickSays' = OnError
           \/ ClickSays' = "done" /\ ClickDue' = {}
  <2>1. CASE ~ValidContext
    BY <2>1 DEF Hear
  <2>2. CASE ValidContext /\ message.answer = "ok"
    <3>1. Says("report", view.click, message.items)
      BY <2>2 DEF Hear
    <3>2. QED
      BY <1>4, <1>5, <2>2, <3>1, SaidFact
  <2>3. CASE ValidContext /\ message.answer # "ok"
    <3>1. Says(OnError, view.click, {}) /\ OnError # "report"
      BY <2>3 DEF Hear, OnError
    <3>2. QED
      BY <2>3, <3>1, SaidFact
  <2>4. QED
    BY <2>1, <2>2, <2>3
<1>7. QED
  BY <1>0, <1>1, <1>3, <1>4, <1>5, <1>6, ClickOver

LEMMA StopWaitingMove ==
    ASSUME BridgeInv, CarriedInv, StopWaiting
    PROVE  ClickMoves
<1>0. /\ view.stage # "idle" /\ message.answer = "none"
      /\ view' = [view EXCEPT !.stage = "idle"]
      /\ message' = [message EXCEPT !.answer = "unheard"]
      /\ UNCHANGED <<worker, script, put>>
      /\ view \in ViewShape /\ message \in AskShape /\ message.kind = view.stage
  BY BridgeHas DEF StopWaiting, MessageInv
<1>1. /\ view'.stage = "idle" /\ view'.click = view.click
      /\ message'.kind = message.kind /\ message'.answer = "unheard" /\ message'.items = message.items
  BY <1>0 DEF ViewShape, AskShape
<1>2. CarriedInv'
  BY <1>0, <1>1 DEF CarriedInv
<1>3. ClickDue' = ClickDue
  BY <1>0, <1>1 DEF ClickDue, MessageDue, ScriptDue
<1>4. view.stage = "inspect" => ClickDue = {}
  BY BridgeHas, NoneSentDue DEF SaidInv
<1>5. IF ~ValidContext THEN UNCHANGED outcome ELSE ClickSays' = OnError
  <2>1. CASE ~ValidContext
    BY <2>1 DEF StopWaiting
  <2>2. CASE ValidContext
    <3>1. Says(OnError, view.click, {}) /\ OnError # "report"
      BY <2>2 DEF StopWaiting, OnError
    <3>2. QED
      BY <2>2, <3>1, SaidFact
  <2>3. QED
    BY <2>1, <2>2
<1>6. QED
  BY <1>0, <1>1, <1>2, <1>3, <1>4, <1>5, ClickOver

LEMMA BridgeFillStep == BridgeInv /\ CarriedInv /\ [BridgeNext]_bridgeVars => ClickMoves
<1> SUFFICES ASSUME BridgeInv, CarriedInv, [BridgeNext]_bridgeVars PROVE ClickMoves
  OBVIOUS
<1>1. CASE WorkerStep
  BY <1>1, ReceiveMove, WorkerReadsMove, SendScriptMove, RunScriptMove, LoseScriptMove DEF WorkerStep
<1>2. CASE PageStep
  BY <1>2, ApproveMove, HearMove, StopWaitingMove DEF PageStep
<1>3. CASE FrameChanged \/ ReloadDraft \/ Click
  BY <1>3, ContextMove, ClickMove
<1>4. CASE \/ ChangeWorld \/ Navigate \/ WorkerKilled \/ DeadlinePasses
           \/ \E b \in Blanks : AnswerByHand(b)
  BY <1>4, AroundMove
<1>5. CASE UNCHANGED bridgeVars
  <2>1. UNCHANGED <<view, outcome, message, worker, script, put>>
    BY <1>5 DEF bridgeVars
  <2>2. ClickDue' \subseteq ClickDue /\ CarriedInv'
    BY <2>1 DEF ClickDue, MessageDue, ScriptDue, CarriedInv, ValidContext
  <2>3. QED
    BY <2>1, <2>2, ClickCalm DEF ClickMoves
<1>6. QED
  BY <1>1, <1>2, <1>3, <1>4, <1>5 DEF BridgeNext

LEMMA PopupFillBegins == PopupInit => NothingTold /\ PopupPromise!Init
<1> SUFFICES ASSUME PopupInit
             PROVE  NothingTold /\ PopupPromise!Init
  OBVIOUS
<1>1. op = NoOp /\ told = "idle" /\ wrote = {}
  BY DEF PopupInit
<1>2. QED
  BY <1>1, PopupNullFields DEF NothingTold, PopupPromise!Init, FillStage, FillDue, FillSays

LEMMA BridgeFillBegins == BridgeInit => CarriedInv /\ BridgePromise!Init
<1> SUFFICES ASSUME BridgeInit
             PROVE  CarriedInv /\ BridgePromise!Init
  OBVIOUS
<1>1. /\ message = NoMessage /\ worker = AtRest /\ script = NoScript /\ put = {}
      /\ view.stage = "idle" /\ outcome.says = "nothing"
  BY DEF BridgeInit
<1>2. CarriedInv
  BY <1>1, BridgeNulls DEF CarriedInv
<1>3. ScriptDue = {}
  BY <1>1 DEF ScriptDue, NoScript
<1>4. BridgePromise!Init
  BY <1>1, <1>3, BridgeNulls
  DEF BridgePromise!Init, ClickStage, ClickDue, MessageDue, ClickWrote, ClickSays
<1>5. QED
  BY <1>2, <1>4

\* A step of either part as OneFill has it.
LEMMA PopupFillMoves ==
    PopupInv /\ NothingTold /\ [PopupNext]_popupVars =>
        NothingTold' /\ [PopupPromise!Next]_(PopupPromise!vars)
  BY PopupFillStep DEF FillMoves, PopupPromise!vars
LEMMA BridgeFillMoves ==
    BridgeInv /\ CarriedInv /\ [BridgeNext]_bridgeVars =>
        CarriedInv' /\ [BridgePromise!Next]_(BridgePromise!vars)
  BY BridgeFillStep DEF ClickMoves, BridgePromise!vars

\* The popup alone implements OneFill: an approved fill is sent once, writes each of its
\* answers at most once, and what it is said to have done stays true (popup.js:618).
THEOREM PopupFillsOnce == PopupSpec => PopupPromise!Spec
  BY PopupInitInv, PopupFillBegins, PopupStepInv, PopupFillMoves, PTL DEF PopupSpec, PopupPromise!Spec

\* So does the platform's page with its extension, whatever is late, lost or killed
\* (application-bridge.js:195).
THEOREM BridgeFillsOnce == BridgeSpec => BridgePromise!Spec
  BY BridgeInitInv, BridgeFillBegins, BridgeStepInv, BridgeFillMoves, PTL
  DEF BridgeSpec, BridgePromise!Spec

\* A fill of the popup or of the page is sent once, each of its answers is written at most
\* once, and what is told of it stays true (popup.js:618, application-bridge.js:195).
THEOREM FillsOnceHolds == ExtensionSpec => FillsOnce
<1> DEFINE FillsInv == BrowserInv /\ NothingTold /\ CarriedInv
<1>1. ExtensionInit => PopupInit /\ BridgeInit
  BY DEF ExtensionInit, AtPopup
<1>2. ExtensionInit => FillsInv /\ PopupPromise!Init /\ BridgePromise!Init
  BY <1>1, BrowserStarts, PopupFillBegins, BridgeFillBegins
<1>3. FillsInv /\ [ExtensionNext]_extensionMCVars =>
          /\ FillsInv'
          /\ [PopupPromise!Next]_(PopupPromise!vars) /\ [BridgePromise!Next]_(BridgePromise!vars)
  BY PartsStep, BrowserStepInv, PopupFillMoves, BridgeFillMoves DEF BrowserInv
<1>4. ExtensionSpec => PopupPromise!Spec /\ BridgePromise!Spec
  BY <1>2, <1>3, PTL DEF ExtensionSpec, PopupPromise!Spec, BridgePromise!Spec
<1>5. QED
  BY <1>4 DEF FillsOnce
===============================================================================
