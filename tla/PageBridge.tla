-------------------------------- MODULE PageBridge --------------------------------
(***************************************************************************)
(* Filling an embedded InternSG form from the platform's own page          *)
(* (frontend ApplicationPreparation.tsx, extensionConnection.ts;           *)
(* extension/application-bridge.js, page.js, widgets.js).                  *)
(*                                                                         *)
(* A click approves the answers shown.  The page asks the extension to     *)
(* inspect the form and then to fill it; the extension checks account,     *)
(* saved details and form before and after every script, keeps a review    *)
(* between the two messages, and spends it before it fills.  A message     *)
(* has a deadline of 18 seconds, known to the script; the page waits for   *)
(* 20.  Frame, accounts and details change at any step, the worker may be  *)
(* killed, a script may run late or its answer get lost.                   *)
(***************************************************************************)
EXTENDS Naturals, FiniteSets

CONSTANTS Blanks,      \* answers of the form
          RichBlanks,  \* those filled by the second script
          MaxClicks,   \* bounds: clicks, and changes around them
          MaxChanges

ASSUME BridgeConstants ==
    RichBlanks \subseteq Blanks /\ {MaxClicks, MaxChanges} \subseteq Nat \ {0}

VARIABLES
    world,    \* account, connection, saved details and frame, as they are
    frame,    \* what the form holds
    view,     \* the page: draft and frame it knows, its generation and click
    outcome,  \* what the page says, and of which click
    message,  \* message of the page: under way, its deadline, its answer
    worker,   \* handler of the message in the extension
    kept,     \* review between the two messages
    script,   \* script on its way to the form
    changes,  \* bound: changes so far
    gaveUp,   \* ghost: clicks on which the page has given up waiting
    put       \* ghost: <<click, answer>> written to the form
bridgeVars == <<world, frame, view, outcome, message, worker, kept, script, changes, gaveUp, put>>

Clicks == 1..MaxClicks
World == [account : Nat, link : Nat, details : Nat, document : Nat]
Start == [account |-> 0, link |-> 0, details |-> 0, document |-> 0]
Empty == [b \in Blanks |-> "empty"]
NoScript == [click |-> 0, document |-> 0, items |-> {}, late |-> FALSE]
NoMessage == [kind |-> "none", click |-> 0, draft |-> 0, late |-> FALSE, answer |-> "none", items |-> {}]
AtRest == [step |-> "rest", next |-> "none", seen |-> Start, expected |-> Start, checks |-> FALSE,
           left |-> {}, free |-> {}, filled |-> {}]
NoKept == [seen |-> Start, free |-> {}]

BridgeInit ==
    /\ world = Start /\ frame = Empty
    /\ view = [draft |-> 0, frame |-> 0, generation |-> 0, click |-> 0, at |-> 0, stage |-> "idle"]
    /\ outcome = [says |-> "nothing", click |-> 0, filled |-> {}]
    /\ message = NoMessage /\ worker = AtRest /\ kept = NoKept /\ script = NoScript
    /\ changes = 0 /\ gaveUp = {} /\ put = {}

Says(what, click, filled) == outcome' = [says |-> what, click |-> click, filled |-> filled]
-------------------------------------------------------------------------------
(* Around them *)

Changed == changes < MaxChanges /\ changes' = changes + 1

\* Another account, connection or version of the saved details.
ChangeWorld ==
    /\ Changed
    /\ \E part \in {"account", "link", "details"} : world' = [world EXCEPT ![part] = @ + 1]
    /\ kept' = IF world'.link # world.link THEN NoKept ELSE kept
    /\ UNCHANGED <<frame, view, outcome, message, worker, script, gaveUp, put>>

\* The form is loaded anew, which the page hears of later.
Navigate ==
    /\ Changed
    /\ world' = [world EXCEPT !.document = @ + 1] /\ frame' = Empty
    /\ UNCHANGED <<view, outcome, message, worker, kept, script, gaveUp, put>>

AnswerByHand(b) ==
    /\ Changed /\ frame[b] # "own"
    /\ frame' = [frame EXCEPT ![b] = "own"]
    /\ UNCHANGED <<world, view, outcome, message, worker, kept, script, gaveUp, put>>

\* The worker is killed: its reviews are gone, and the page is told of an error.
WorkerKilled ==
    /\ Changed
    /\ kept' = NoKept /\ worker' = AtRest
    /\ message' = IF worker = AtRest THEN message
                  ELSE IF message.answer = "unheard" THEN NoMessage
                  ELSE [message EXCEPT !.answer = "error"]
    /\ UNCHANGED <<world, frame, view, outcome, script, gaveUp, put>>

\* 18 seconds have passed: the deadline of the message, and of its script.
DeadlinePasses ==
    /\ Changed
    /\ message # NoMessage \/ script # NoScript
    /\ message' = IF message = NoMessage THEN message ELSE [message EXCEPT !.late = TRUE]
    /\ script' = IF message.click \in {0, script.click} THEN [script EXCEPT !.late = TRUE] ELSE script
    /\ UNCHANGED <<world, frame, view, outcome, worker, kept, gaveUp, put>>
-------------------------------------------------------------------------------
(* The page *)

ValidContext == view.generation = view.at

\* frameChanged: the context of the click is over.
FrameChanged ==
    /\ view.frame # world.document
    /\ view' = [view EXCEPT !.frame = world.document, !.generation = @ + 1]
    /\ IF view.stage = "idle" THEN Says("nothing", 0, {})
       ELSE Says(IF view.stage = "fill" THEN "perhaps" ELSE "not sent", view.click, {})
    /\ UNCHANGED <<world, frame, message, worker, kept, script, changes, gaveUp, put>>

\* reloadDraft and loadDraft
ReloadDraft ==
    /\ view.stage = "idle" /\ view.draft # world.details
    /\ view' = [view EXCEPT !.draft = world.details, !.generation = @ + 1]
    /\ Says("nothing", 0, {})
    /\ UNCHANGED <<world, frame, message, worker, kept, script, changes, gaveUp, put>>

\* handleFill: the click approves what is shown.
Click ==
    /\ view.stage = "idle" /\ message = NoMessage /\ view.click + 1 \in Clicks
    /\ view' = [view EXCEPT !.click = @ + 1, !.generation = @ + 1, !.at = view.generation + 1,
                            !.stage = "inspect"]
    /\ message' = [NoMessage EXCEPT !.kind = "inspect", !.click = view.click + 1,
                                    !.draft = view.draft]
    /\ Says("nothing", 0, {})
    /\ UNCHANGED <<world, frame, worker, kept, script, changes, gaveUp, put>>

\* The form has been inspected: the answers that fit are sent, once.
Approve ==
    /\ view.stage = "inspect" /\ message.kind = "inspect" /\ message.answer = "ok"
    /\ message.click = view.click
    /\ IF ValidContext /\ message.items # {}
       THEN /\ view' = [view EXCEPT !.stage = "fill"]
            /\ message' = [NoMessage EXCEPT !.kind = "fill", !.click = view.click,
                                            !.draft = message.draft, !.items = message.items]
            /\ UNCHANGED outcome
       ELSE /\ view' = [view EXCEPT !.stage = "idle"] /\ message' = NoMessage
            /\ IF ValidContext THEN Says("report", view.click, {}) ELSE UNCHANGED outcome
    /\ UNCHANGED <<world, frame, worker, kept, script, changes, gaveUp, put>>

\* Mutant: every error says that nothing was sent.
ErrorMeansNotSent == "not sent"

\* What the page says when a message fails.
OnError == IF view.stage = "fill" THEN "perhaps" ELSE "not sent"

\* The answer of the extension, if the context is still that of the click.
Hear ==
    /\ view.stage # "idle" /\ message.click = view.click
    /\ message.answer = "error" \/ (message.kind = "fill" /\ message.answer = "ok")
    /\ view' = [view EXCEPT !.stage = "idle"] /\ message' = NoMessage
    /\ IF ~ValidContext THEN UNCHANGED outcome
       ELSE IF message.answer = "ok" THEN Says("report", view.click, message.items)
       ELSE Says(OnError, view.click, {})
    /\ UNCHANGED <<world, frame, worker, kept, script, changes, gaveUp, put>>

\* extensionMessage: no answer within 20 seconds.
StopWaiting ==
    /\ view.stage # "idle" /\ message.late /\ message.answer = "none"
    /\ view' = [view EXCEPT !.stage = "idle"]
    /\ message' = [message EXCEPT !.answer = "unheard"]
    /\ gaveUp' = gaveUp \union {view.click}
    /\ IF ValidContext THEN Says(OnError, view.click, {}) ELSE UNCHANGED outcome
    /\ UNCHANGED <<world, frame, worker, kept, script, changes, put>>
-------------------------------------------------------------------------------
(* The extension *)

\* The handler answers, if the page still listens.
Reply(answer, items) ==
    /\ worker' = AtRest
    /\ message' = IF message.answer = "unheard" THEN NoMessage
                  ELSE [message EXCEPT !.answer = answer, !.items = items]

Stop == Reply("error", {})

\* A fill finds the review and spends it before anything is awaited.
Spent == NoKept

Receive ==
    /\ worker = AtRest /\ message # NoMessage /\ message.answer \in {"none", "unheard"}
    /\ CASE message.kind = "inspect" ->
              worker' = [AtRest EXCEPT !.step = "session", !.next = "scan"]
              /\ UNCHANGED <<message, kept>>
         [] message.kind = "fill" /\ kept = NoKept -> Stop /\ UNCHANGED kept
         [] OTHER ->
              /\ worker' = [AtRest EXCEPT !.step = "session", !.expected = kept.seen, !.checks = TRUE,
                               !.next = IF message.items \subseteq RichBlanks THEN "rich" ELSE "plain",
                               !.left = message.items]
              /\ kept' = Spent
              /\ UNCHANGED message
    /\ UNCHANGED <<world, frame, view, outcome, script, changes, gaveUp, put>>

Working(step) == worker.step = step /\ worker # AtRest
Proceed(change) == worker' = change /\ UNCHANGED message

\* authorize: the session of the extension, unless the deadline has passed ...
ReadSession ==
    /\ Working("session")
    /\ IF message.late THEN Stop
       ELSE Proceed([worker EXCEPT !.step = "platform", !.seen = [Start EXCEPT !.link = world.link]])
    /\ UNCHANGED <<world, frame, view, outcome, kept, script, changes, gaveUp, put>>

\* ... the platform's account and saved details; inspection wants the page's draft ...
VerifyPlatform ==
    /\ Working("platform")
    /\ IF worker.checks \/ message.draft = world.details
       THEN Proceed([worker EXCEPT !.step = "frames",
                        !.seen = [@ EXCEPT !.account = world.account, !.details = world.details]])
       ELSE Stop
    /\ UNCHANGED <<world, frame, view, outcome, kept, script, changes, gaveUp, put>>

AsExpected(seen) == worker.checks => seen = worker.expected

\* ... the one matching frame, and the same session and context as before.
MatchFrame ==
    LET seen == [worker.seen EXCEPT !.document = world.document]
    IN  /\ Working("frames")
        /\ IF seen.link = world.link /\ AsExpected(seen) /\ ~message.late
           THEN Proceed([worker EXCEPT !.step = worker.next, !.seen = seen])
           ELSE Stop
        /\ UNCHANGED <<world, frame, view, outcome, kept, script, changes, gaveUp, put>>

\* inspect: what is free in the form; then everything is checked again.
Scan ==
    /\ Working("scan")
    /\ IF world.document = worker.seen.document
       THEN Proceed([worker EXCEPT !.step = "session", !.next = "review", !.checks = TRUE,
                        !.expected = worker.seen, !.free = {b \in Blanks : frame[b] = "empty"}])
       ELSE Stop
    /\ UNCHANGED <<world, frame, view, outcome, kept, script, changes, gaveUp, put>>

KeepInspected ==
    /\ Working("review")
    /\ kept' = [seen |-> worker.seen, free |-> worker.free]
    /\ Reply("ok", worker.free)
    /\ UNCHANGED <<world, frame, view, outcome, script, changes, gaveUp, put>>

\* fill: a script with the answers of its kind goes to the inspected document.
SendScript ==
    LET items == IF worker.step = "plain" THEN worker.left \ RichBlanks
                 ELSE worker.left \intersect RichBlanks
    IN  /\ worker.step \in {"plain", "rich"} /\ script = NoScript
        /\ script' = [click |-> message.click, document |-> worker.expected.document, items |-> items,
                       late |-> message.late]
        /\ worker' = [worker EXCEPT !.step = "await", !.left = @ \ items]
        /\ UNCHANGED <<world, frame, view, outcome, message, kept, changes, gaveUp, put>>

\* Mutant: the script knows no deadline.
NeverExpired == FALSE

\* The deadline that the script was given.
ScriptExpired == script.late

Awaited == Working("await") /\ message.click = script.click

\* The script runs in its document, in one turn: what is free is filled.  Past the
\* deadline it stops, perhaps after some answers if the time ran out meanwhile.
RunScript ==
    LET free == {b \in script.items : frame[b] = "empty"}
    IN  /\ script # NoScript /\ world.document = script.document
        /\ \E part \in IF ScriptExpired THEN {{}} ELSE {free} :
              /\ frame' = [b \in Blanks |-> IF b \in part THEN "sent" ELSE frame[b]]
              /\ put' = put \union {<<script.click, b>> : b \in part}
              /\ IF ~Awaited THEN UNCHANGED <<worker, message>>
                 ELSE IF ScriptExpired THEN Stop
                 ELSE Proceed([worker EXCEPT !.filled = @ \union part, !.step = "session",
                                  !.next = IF worker.left = {} THEN "report" ELSE "rich"])
        /\ script' = NoScript
        /\ UNCHANGED <<world, view, outcome, kept, changes, gaveUp>>

\* Its document is gone; or its answer is, and the handler stops.
LoseScript ==
    /\ script # NoScript /\ world.document # script.document
    /\ script' = NoScript
    /\ IF Awaited THEN Stop ELSE UNCHANGED <<worker, message>>
    /\ UNCHANGED <<world, frame, view, outcome, kept, changes, gaveUp, put>>

\* The last check has passed as well.
ReportFilled ==
    /\ Working("report")
    /\ Reply("ok", worker.filled)
    /\ UNCHANGED <<world, frame, view, outcome, kept, script, changes, gaveUp, put>>
-------------------------------------------------------------------------------
WorkerStep ==
    \/ Receive \/ ReadSession \/ VerifyPlatform \/ MatchFrame \/ Scan \/ KeepInspected
    \/ SendScript \/ RunScript \/ LoseScript \/ ReportFilled
PageStep == Approve \/ Hear \/ StopWaiting

BridgeNext ==
    \/ ChangeWorld \/ Navigate \/ WorkerKilled \/ DeadlinePasses
    \/ \E b \in Blanks : AnswerByHand(b)
    \/ FrameChanged \/ ReloadDraft \/ Click \/ PageStep
    \/ WorkerStep

\* The browser serves what is awaited.
BridgeFairness == WF_bridgeVars(WorkerStep) /\ WF_bridgeVars(PageStep)

BridgeSpec == BridgeInit /\ [][BridgeNext]_bridgeVars /\ BridgeFairness
-------------------------------------------------------------------------------
(* The fill of the last click as OneFill has it *)

ClickStage ==
    IF view.stage = "fill" THEN "sent"
    ELSE IF view.stage = "inspect" /\ ValidContext THEN "approved" ELSE "over"

\* What the message and its handler have to write, and what their script has.
MessageDue ==
    IF message.kind = "fill" /\ message.answer \in {"none", "unheard"}
    THEN IF worker = AtRest THEN message.items ELSE worker.left ELSE {}
ScriptDue == IF script.click = view.click THEN script.items ELSE {}
ClickDue == MessageDue \union ScriptDue

ClickWrote == {b \in Blanks : <<view.click, b>> \in put}

ClickSays == IF outcome.says = "report" THEN "done" ELSE outcome.says

BridgePromise == INSTANCE OneFill WITH Answers <- Blanks, stage <- ClickStage, due <- ClickDue,
                                       wrote <- ClickWrote, says <- ClickSays
-------------------------------------------------------------------------------
(* Properties *)

\* Every variable has its type.
BridgeTypes ==
    /\ world \in World /\ view.click \in Clicks \union {0}
    /\ view.stage \in {"idle", "inspect", "fill"}
    /\ outcome.says \in {"nothing", "report", "not sent", "perhaps"}
    /\ message.items \union worker.left \union worker.filled \union script.items \subseteq Blanks
    /\ put \subseteq Clicks \X Blanks

\* The page says that no answers were sent only of a click that wrote none, and
\* none of whose scripts is still on its way.
NotSentIsTrue ==
    outcome.says = "not sent" =>
        script.click # outcome.click /\ \A b \in Blanks : <<outcome.click, b>> \notin put

\* What the page reports as filled, the click has filled, and this is the form of
\* which the page knows.
ReportIsTrue ==
    outcome.says = "report" => \A b \in outcome.filled : <<outcome.click, b>> \in put

\* Nothing is written for a click on which the page has given up waiting.
NothingAfterWaiting ==
    [][\A b \in Blanks, c \in gaveUp : <<c, b>> \in put' => <<c, b>> \in put]_bridgeVars

\* An answer given on the form is left alone, and a click's answers go to the
\* document and the saved details that it inspected.
FormIsRespected ==
    [][/\ \A b \in Blanks : (frame[b] = "own" /\ world'.document = world.document)
                                => frame'[b] = "own"
       /\ (script = NoScript /\ script' # NoScript) =>
              worker.seen = worker.expected /\ message.draft = worker.expected.details]_bridgeVars
===============================================================================
