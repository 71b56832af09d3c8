-------------------------------- MODULE OneFill --------------------------------
(***************************************************************************)
(* What the extension promises of a fill that the user has approved, from  *)
(* its popup (extension/popup.js) or from the platform's page              *)
(* (extension/application-bridge.js): its answers are sent once, each is   *)
(* written at most once, and a verdict is told of it at most once and      *)
(* stays true.  "perhaps" promises nothing: answers may still arrive.      *)
(***************************************************************************)
CONSTANT Answers

VARIABLES
    stage,  \* of the fill: approved, sent, or over
    due,    \* answers on their way to the form
    wrote,  \* answers written
    says    \* what the user is told of the fill
vars == <<stage, due, wrote, says>>

Verdicts == {"nothing", "not sent", "done", "perhaps"}

Init == stage = "over" /\ due = {} /\ wrote = {} /\ says = "nothing"

\* Another fill is approved, or prepared.
Approve ==
    /\ stage = "over" /\ stage' \in {"approved", "over"}
    /\ due' = {} /\ wrote' = {} /\ says' = "nothing"

Send ==
    /\ stage = "approved" /\ stage' = "sent"
    /\ due' \in SUBSET Answers
    /\ UNCHANGED <<wrote, says>>

\* Some answers are written; others find no place, or are lost.
Write ==
    /\ \E now \in SUBSET due : wrote' = wrote \union now /\ due' \in SUBSET (due \ now)
    /\ UNCHANGED <<stage, says>>

\* A verdict, the first of this fill; it stands until the fill is over.
Tell(verdict) ==
    /\ verdict \notin {"nothing", says} => stage # "over" /\ says = "nothing"
    /\ verdict = "nothing" => stage = "over" \/ says = "nothing"
    /\ verdict = "not sent" => wrote = {} /\ due' = {} /\ stage' = "over"
    /\ verdict = "done" => due' = {} /\ stage' = "over"
    /\ verdict = "perhaps" => stage = "sent" \/ says = "perhaps"
    /\ stage' \in {stage, "over"} /\ due' \in SUBSET due
    /\ says' = verdict
    /\ UNCHANGED wrote

Next == Approve \/ Send \/ Write \/ \E verdict \in Verdicts : Tell(verdict)
Spec == Init /\ [][Next]_vars
===============================================================================
