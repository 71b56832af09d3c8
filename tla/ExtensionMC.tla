------------------------------- MODULE ExtensionMC -------------------------------
(***************************************************************************)
(* The browser: the extension's popup, its link to the platform and its    *)
(* bridge to the platform's page, and the assistant's form page.  They     *)
(* share no state but the connection and the account, which each may see   *)
(* change at any step: every behaviour is one part's.                      *)
(***************************************************************************)
EXTENDS PopupFill, ExtensionLink, PageBridge, FormPage, TLC

VARIABLE part \* the part whose behaviour this is
extensionMCVars == <<part, popupVars, linkVars, bridgeVars, formVars>>

AtPopup == tool = "ats" /\ PopupInit
AtLink == known = FALSE /\ LinkInit
AtForm == token = "A" /\ FormInit

\* Both accounts saved a name; only the profile of A has evidence for an answer.
MCKind == ("name" :> "direct") @@ ("why" :> "drafted")
MCFact == [a \in {"A", "B"} |-> ("name" :> a) @@ ("why" :> "none")]
MCEvidence == [a \in {"A", "B"} |-> IF a = "A" THEN {"why"} ELSE {}]

ExtensionInit ==
    /\ BridgeInit
    /\ \/ part = "popup" /\ PopupInit /\ AtLink /\ AtForm
       \/ part = "link" /\ LinkInit /\ AtPopup /\ AtForm
       \/ part = "bridge" /\ AtPopup /\ AtLink /\ AtForm
       \/ part = "form" /\ AtPopup /\ AtLink /\ FormInit

ExtensionNext ==
    \/ part = "popup" /\ PopupNext /\ UNCHANGED <<part, linkVars, bridgeVars, formVars>>
    \/ part = "link" /\ LinkNext /\ UNCHANGED <<part, popupVars, bridgeVars, formVars>>
    \/ part = "bridge" /\ BridgeNext /\ UNCHANGED <<part, popupVars, linkVars, formVars>>
    \/ part = "form" /\ FormPageNext /\ UNCHANGED <<part, popupVars, linkVars, bridgeVars>>

\* Each part's fairness holds trivially of a part that stays where it starts: none
\* of the steps it names is possible there.
ExtensionSpec ==
    ExtensionInit /\ [][ExtensionNext]_extensionMCVars /\ PopupFairness /\ BridgeFairness
-------------------------------------------------------------------------------
\* Late answers, fills and reports stay with the preview, approval and outcome they
\* are of, a record holds what its account confirmed, and every page keeps its form
\* (popup.js:149, popup.js:618, application-bridge.js:195, ApplicationFormPage.tsx:228).
FillsAreSafe ==
    /\ PopupTypes /\ BridgeTypes
    /\ AnswersOfThisPreview /\ SentAsShown /\ OneAttemptPerQuestion /\ ToldTruly
    /\ NotSentIsTrue /\ ReportIsTrue
    /\ FormPageTypes /\ SavedIsShown /\ RecordIsReviewed /\ SureOfFactsOnly

\* Access ends with the login and no grant is left behind by a new connection
\* (extension_router.py:111, connection.js:25).
AccessIsBounded ==
    LinkTypes /\ LoggedOutIsCutOff /\ NoGrantLeftBehind /\ PendingMeansDisconnected

\* What the user wrote, in a form, the popup or a record, stays; nothing is written after
\* the page gave up; no code is exchanged after its login (ats-page.js:700).
StepsAreRespectful ==
    /\ WebsiteKept /\ EditsKept /\ NothingAfterWaiting /\ FormIsRespected
    /\ ExchangesAreTimely /\ RecordStays

\* A fill, from the popup or from the page, is OneFill: sent once, each answer written at
\* most once, with one verdict that stays true (popup.js:618, application-bridge.js:195).
FillsOnce == PopupPromise!Spec /\ BridgePromise!Spec

\* Neither the popup nor the page stays busy, and a preparation ends.
UnderWay == Busy \/ view.stage # "idle"
ExtensionSettles == (UnderWay ~> ~UnderWay) /\ PreparationEnds
===============================================================================
